---- MODULE Spec2Model ----
(***************************************************************************)
(* Model of oracle-ddl-rag-mcp: the table relationship graph               *)
(* (graph/table_graph.py) and the enum extraction and merge                *)
(* (extractors/enum_extractor.py).                                         *)
(*                                                                         *)
(* Python values are modelled directly: str as TLA+ strings (f-strings and *)
(* str.join by \o), list as sequences, dict as functions, None as the      *)
(* record NoneVal or the string PyNone where a str is optional.            *)
(***************************************************************************)
EXTENDS Integers, Sequences, FiniteSets, TLC

VARIABLES
    adj,      \* TableGraph.graph: networkx adjacency, node -> (neighbour -> edge data)
    ncalls,   \* history: how many add_relationship calls the graph has taken
    last,     \* history: unordered table pair -> the latest fact that named it
    res,      \* the call in progress and what it returned, or Idle
    epc,      \* extract_all: where the call stands
    enums,    \* extract_all: the dict enums, keyed by "TABLE.COLUMN"
    used,     \* extract_all: the (table, column) keys of the YAML file read so far
    estep,    \* extract_all: the loop iteration just made, or NoStep
    cache_tables,         \* SQLiteCache: rows of "tables", by table_name
    cache_enums,          \* SQLiteCache: rows of "enums", by id
    cache_relationships,  \* SQLiteCache: rows of "relationships", by id
    graph,    \* tools/find_path.py: the module-level _graph, or NoneVal
    nwrites,  \* history: how many writes the cache has taken
    tres,     \* the tool call in progress and what it returned, or Idle
    cache_sync_metadata,  \* SQLiteCache: rows of "sync_metadata", by key
    fetched,  \* history: the relationships _get_graph read for _graph, or NoneVal
    lastrel   \* history: relationship id -> the data of the latest upsert for it

gvars == <<adj, ncalls, last, res>>

evars == <<epc, enums, used, estep>>

tvars == <<cache_tables, cache_enums, cache_relationships, graph, nwrites, tres,
           cache_sync_metadata, fetched, lastrel>>

vars == <<adj, ncalls, last, res, epc, enums, used, estep,
          cache_tables, cache_enums, cache_relationships, graph, nwrites, tres,
          cache_sync_metadata, fetched, lastrel>>

-----------------------------------------------------------------------------
(* Bounds of the model *)

\* add_relationship calls per behaviour
MaxFacts == 5
\* length of the list handed to one build_from_relationships call
MaxBuild == 3
\* largest max_hops argument of a query
MaxHopsArg == 3
\* rows the CHECK constraint query returns
MaxRows == 2
\* (table, column) entries of the manual overrides file
MaxManual == 2
\* items of one values list of the manual overrides file
MaxValues == 2

\* writes the cache takes
MaxWrites == 4

\* the largest max_hops a tool is called with
MaxToolHops == 2

-----------------------------------------------------------------------------
(* Python helpers *)

\* Optional[str] = None
PyNone == "<None>"

\* a query returning None
NoneVal == [kind |-> "None"]

\* {} : the empty dict
EmptyDict == [x \in {} |-> {}]

\* d[k] = v
DictPut(d, k, v) == [x \in (DOMAIN d) \cup {k} |-> IF x = k THEN v ELSE d[x]]

\* d.update(e)
DictUpdate(d, e) ==
    [x \in (DOMAIN d) \cup (DOMAIN e) |-> IF x \in DOMAIN e THEN e[x] ELSE d[x]]

\* str.upper() on the names the model uses
Upper(s) ==
    CASE s = "orders" -> "ORDERS"
      [] s = "Order_Items" -> "ORDER_ITEMS"
      [] s = "customers" -> "CUSTOMERS"
      [] s = "status" -> "STATUS"
      [] s = "accounts" -> "ACCOUNTS"
      [] OTHER -> s

\* Python's str ordering (by code point) on the upper-cased table names:
\* "ORDERS" < "ORDER_ITEMS" because 'S' = 0x53 < '_' = 0x5F
StrRank(s) ==
    CASE s = "ACCOUNTS" -> 1
      [] s = "ADDRESSES" -> 2
      [] s = "CONTACTS" -> 3
      [] s = "CUSTOMERS" -> 4
      [] s = "INVOICES" -> 5
      [] s = "ORDERS" -> 6
      [] s = "ORDER_ITEMS" -> 7
      [] s = "PAYMENTS" -> 8
      [] s = "PRODUCTS" -> 9
      [] s = "TICKETS" -> 10
      [] OTHER -> 11

\* zip(a, b): pairs up to the shorter list
Zip(a, b) ==
    LET n == IF Len(a) < Len(b) THEN Len(a) ELSE Len(b)
    IN  [i \in 1..n |-> <<a[i], b[i]>>]

\* sep.join(parts)
RECURSIVE StrJoin(_, _)
StrJoin(sep, parts) ==
    IF Len(parts) = 0 THEN ""
    ELSE IF Len(parts) = 1 THEN parts[1]
    ELSE parts[1] \o sep \o StrJoin(sep, Tail(parts))

-----------------------------------------------------------------------------
(* The relationship facts the model draws its inputs from *)

Fact(p, c, pcs, ccs, cn) ==
    [parent_table |-> p, child_table |-> c, parent_columns |-> pcs,
     child_columns |-> ccs, constraint_name |-> cn]

FactUniverse ==
    { Fact("ORDERS", "ORDER_ITEMS", <<"ID">>, <<"ORDER_ID">>, "FK_OI_ORDER"),
      Fact("CUSTOMERS", "ORDERS", <<"ID">>, <<"CUSTOMER_ID">>, "FK_ORD_CUST"),
      Fact("PRODUCTS", "ORDER_ITEMS", <<"ID">>, <<"PRODUCT_ID">>, "FK_OI_PROD"),
      Fact("PRODUCTS", "CUSTOMERS", <<"ID">>, <<"FAV_PRODUCT_ID">>, "FK_CUST_PROD"),
      \* same pair as the first, other case, composite key, no constraint name
      Fact("orders", "Order_Items", <<"ID", "REGION">>, <<"ORDER_ID", "REGION">>, PyNone),
      \* same pair as the first, opposite orientation
      Fact("ORDER_ITEMS", "ORDERS", <<"ID">>, <<"LAST_ITEM_ID">>, "FK_ORD_LAST"),
      \* a self-referencing relationship
      Fact("CUSTOMERS", "CUSTOMERS", <<"ID">>, <<"REFERRER_ID">>, "FK_CUST_REF"),
      \* malformed: empty column lists
      Fact("CUSTOMERS", "PRODUCTS", <<>>, <<>>, "FK_EMPTY"),
      \* malformed: column lists of different lengths
      Fact("customers", "ORDERS", <<"ID", "REGION">>, <<"CUSTOMER_ID">>, "FK_UNEQUAL") }

\* table names a query may be called with
QueryNames == {"ORDER_ITEMS", "ORDERS", "CUSTOMERS", "PRODUCTS", "orders"}

\* the spec's InvalidRelationship condition on a fact
Malformed(f) ==
    \/ Len(f.parent_columns) # Len(f.child_columns)
    \/ Len(f.parent_columns) = 0
    \/ Len(f.child_columns) = 0

-----------------------------------------------------------------------------
(* networkx.Graph *)

Nodes(g) == DOMAIN g

Neighbors(g, u) == DOMAIN g[u]

HasEdge(g, u, v) == u \in DOMAIN g /\ v \in DOMAIN g[u]

\* add_edge, were the graph a directed one (nx.DiGraph): the edge is stored
\* from u to v only
nx_add_edge_Directed(g, u, v, attr) ==
    LET g1 == IF u \in DOMAIN g THEN g ELSE DictPut(g, u, EmptyDict)
        g2 == IF v \in DOMAIN g1 THEN g1 ELSE DictPut(g1, v, EmptyDict)
        old == IF v \in DOMAIN g2[u] THEN g2[u][v] ELSE EmptyDict
        datadict == DictUpdate(old, attr)
    IN  DictPut(g2, u, DictPut(g2[u], v, datadict))

\* Graph.add_edge(u, v, **attr): both nodes are created when missing, the
\* edge's attribute dict is updated with attr and stored under both directions
nx_add_edge(g, u, v, attr) ==
    LET g1 == IF u \in DOMAIN g THEN g ELSE DictPut(g, u, EmptyDict)
        g2 == IF v \in DOMAIN g1 THEN g1 ELSE DictPut(g1, v, EmptyDict)
        old == IF v \in DOMAIN g2[u] THEN g2[u][v] ELSE EmptyDict
        datadict == DictUpdate(old, attr)
        g3 == DictPut(g2, u, DictPut(g2[u], v, datadict))
        g4 == DictPut(g3, v, DictPut(g3[v], u, datadict))
    IN  g4

\* breadth-first levels from s: Levels(g, {s}, {s})[d + 1] is the set of nodes
\* at distance d
RECURSIVE Levels(_, _, _)
Levels(g, frontier, seen) ==
    IF frontier = {} THEN << >>
    ELSE LET next == (UNION {Neighbors(g, u) : u \in frontier}) \ seen
         IN  <<frontier>> \o Levels(g, next, seen \cup next)

\* single_source_shortest_path_length, were the cutoff exclusive
nx_single_source_shortest_path_length_Exclusive(g, source, cutoff) ==
    LET lv == Levels(g, {source}, {source})
        within == {d \in 1..Len(lv) : d - 1 < cutoff \/ d = 1}
    IN  [n \in UNION {lv[d] : d \in within} |->
            (CHOOSE d \in within : n \in lv[d]) - 1]

\* single_source_shortest_path_length(G, source, cutoff): node -> distance,
\* for the nodes at distance <= cutoff (the source included, at 0)
nx_single_source_shortest_path_length(g, source, cutoff) ==
    LET lv == Levels(g, {source}, {source})
        within == {d \in 1..Len(lv) : d - 1 <= cutoff}
    IN  [n \in UNION {lv[d] : d \in within} |->
            (CHOOSE d \in within : n \in lv[d]) - 1]

\* the breadth-first paths from s that end in t, t being on level d (1-based)
RECURSIVE BfsPaths(_, _, _, _)
BfsPaths(g, lv, t, d) ==
    IF d = 1 THEN {<<t>>}
    ELSE UNION { {Append(p, t) : p \in BfsPaths(g, lv, u, d - 1)} :
                 u \in {x \in lv[d - 1] : t \in Neighbors(g, x)} }

\* shortest_path(G, source, target): the library returns one shortest path;
\* which one, among several of the same length, depends on its traversal
\* order, so the model gives the set of all of them. {} stands for
\* NetworkXNoPath being raised.
nx_shortest_path(g, source, target) ==
    LET lv == Levels(g, {source}, {source})
        at == {d \in 1..Len(lv) : target \in lv[d]}
    IN  IF at = {} THEN {}
        ELSE BfsPaths(g, lv, target, CHOOSE d \in at : TRUE)

-----------------------------------------------------------------------------
(* TableGraph *)

\* TableGraph.__init__: an empty undirected graph
EmptyGraph == EmptyDict

\* the attributes add_relationship stores on the edge
EdgeData(parent_table, child_table, parent_columns, child_columns, constraint_name) ==
    [parent_columns |-> parent_columns, child_columns |-> child_columns,
     constraint_name |-> constraint_name, parent |-> parent_table,
     child |-> child_table]

\* add_relationship, were it to store the table names as given, in their case
add_relationship_KeepsCase(g, parent_table, child_table, parent_columns, child_columns, constraint_name) ==
    nx_add_edge(g, parent_table, child_table,
                EdgeData(parent_table, child_table,
                         parent_columns, child_columns, constraint_name))

\* add_relationship, were it to drop a fact whose column lists are empty or
\* differ in length
add_relationship_Validating(g, parent_table, child_table, parent_columns, child_columns, constraint_name) ==
    IF Len(parent_columns) # Len(child_columns) \/ Len(parent_columns) = 0
    THEN g
    ELSE nx_add_edge(g, Upper(parent_table), Upper(child_table),
                     EdgeData(Upper(parent_table), Upper(child_table),
                              parent_columns, child_columns, constraint_name))

\* add_relationship, were it to leave an edge the graph already holds as it is
add_relationship_KeepFirst(g, parent_table, child_table, parent_columns, child_columns, constraint_name) ==
    IF HasEdge(g, Upper(parent_table), Upper(child_table))
    THEN g
    ELSE nx_add_edge(g, Upper(parent_table), Upper(child_table),
                     EdgeData(Upper(parent_table), Upper(child_table),
                              parent_columns, child_columns, constraint_name))

\* TableGraph.add_relationship: upper-cases both names and adds the edge; the
\* column lists are stored as given, whatever their lengths
add_relationship(g, parent_table, child_table, parent_columns, child_columns, constraint_name) ==
    LET parent == Upper(parent_table)
        child == Upper(child_table)
    IN  nx_add_edge(g, parent, child,
                    EdgeData(parent, child, parent_columns, child_columns,
                             constraint_name))

\* build_from_relationships, were it to stop at the first malformed fact
RECURSIVE build_from_relationships_Aborting(_, _)
build_from_relationships_Aborting(g, relationships) ==
    IF Len(relationships) = 0 \/ Malformed(Head(relationships)) THEN g
    ELSE LET rel == Head(relationships)
         IN  build_from_relationships_Aborting(
                 nx_add_edge(g, Upper(rel.parent_table), Upper(rel.child_table),
                             EdgeData(Upper(rel.parent_table), Upper(rel.child_table),
                                      rel.parent_columns, rel.child_columns,
                                      rel.constraint_name)),
                 Tail(relationships))

\* TableGraph.build_from_relationships: add_relationship for each dict of the
\* list, in order
RECURSIVE build_from_relationships(_, _)
build_from_relationships(g, relationships) ==
    IF Len(relationships) = 0 THEN g
    ELSE LET rel == Head(relationships)
         IN  build_from_relationships(
                 add_relationship(g, rel.parent_table, rel.child_table,
                                  rel.parent_columns, rel.child_columns,
                                  rel.constraint_name),
                 Tail(relationships))

\* _format_join_condition, were it to ignore the direction of the step
format_join_condition_ParentFirst(from_table, to_table, edge_data) ==
    LET parent == edge_data.parent
        child == edge_data.child
        pairs == Zip(edge_data.parent_columns, edge_data.child_columns)
        conditions ==
            [i \in 1..Len(pairs) |->
                parent \o "." \o pairs[i][1] \o " = " \o child \o "." \o pairs[i][2]]
    IN  IF Len(conditions) > 0 THEN StrJoin(" AND ", conditions)
        ELSE from_table \o ".id = " \o to_table \o ".id"

\* TableGraph._format_join_condition
format_join_condition(from_table, to_table, edge_data) ==
    LET parent == edge_data.parent
        child == edge_data.child
        pairs == Zip(edge_data.parent_columns, edge_data.child_columns)
        conditions ==
            [i \in 1..Len(pairs) |->
                IF from_table = parent
                THEN parent \o "." \o pairs[i][1] \o " = " \o child \o "." \o pairs[i][2]
                ELSE child \o "." \o pairs[i][2] \o " = " \o parent \o "." \o pairs[i][1]]
    IN  IF Len(conditions) > 0 THEN StrJoin(" AND ", conditions)
        ELSE from_table \o ".id = " \o to_table \o ".id"

\* the JoinPath, were its steps numbered by the loop index, from 0
JoinPathOf_NumberedFromZero(g, source, target, path) ==
    LET steps ==
            [i \in 1..(Len(path) - 1) |->
                LET from_table == path[i]
                    to_table == path[i + 1]
                    edge_data == g[from_table][to_table]
                IN  [step_number |-> i - 1,
                     from_table |-> from_table,
                     to_table |-> to_table,
                     join_condition |->
                         format_join_condition(from_table, to_table, edge_data),
                     constraint_name |-> edge_data.constraint_name]]
    IN  [kind |-> "JoinPath", source |-> source, target |-> target,
         steps |-> steps, total_hops |-> Len(steps)]

\* the JoinPath find_shortest_path builds from a node path
JoinPathOf(g, source, target, path) ==
    LET steps ==
            [i \in 1..(Len(path) - 1) |->
                LET from_table == path[i]
                    to_table == path[i + 1]
                    edge_data == g[from_table][to_table]
                IN  [step_number |-> i,
                     from_table |-> from_table,
                     to_table |-> to_table,
                     join_condition |->
                         format_join_condition(from_table, to_table, edge_data),
                     constraint_name |-> edge_data.constraint_name]]
    IN  [kind |-> "JoinPath", source |-> source, target |-> target,
         steps |-> steps, total_hops |-> Len(steps)]

\* find_shortest_path, were it to take any path without a repeated table
\* (all_simple_paths) instead of a shortest one
find_shortest_path_AnySimplePath(g, source_arg, target_arg, max_hops) ==
    LET source == Upper(source_arg)
        target == Upper(target_arg)
        paths == {p \in UNION {[1..n -> Nodes(g)] : n \in 1..Cardinality(Nodes(g))} :
                    /\ p[1] = source
                    /\ p[Len(p)] = target
                    /\ \A i \in 1..(Len(p) - 1) : HasEdge(g, p[i], p[i + 1])
                    /\ \A i \in DOMAIN p : \A j \in DOMAIN p : p[i] = p[j] => i = j}
    IN  IF source \notin Nodes(g) THEN {NoneVal}
        ELSE IF target \notin Nodes(g) THEN {NoneVal}
        ELSE IF paths = {} THEN {NoneVal}
        ELSE { IF Len(path) - 1 > max_hops THEN NoneVal
               ELSE JoinPathOf(g, source, target, path) : path \in paths }

\* find_shortest_path, were it to compare the number of tables on the path,
\* not the number of edges, with max_hops
find_shortest_path_CountsTables(g, source_arg, target_arg, max_hops) ==
    LET source == Upper(source_arg)
        target == Upper(target_arg)
    IN  IF source \notin Nodes(g) THEN {NoneVal}
        ELSE IF target \notin Nodes(g) THEN {NoneVal}
        ELSE LET paths == nx_shortest_path(g, source, target)
             IN  IF paths = {} THEN {NoneVal}
                 ELSE { IF Len(path) > max_hops THEN NoneVal
                        ELSE JoinPathOf(g, source, target, path) : path \in paths }

\* find_shortest_path, were it to search without looking the tables up first:
\* the library raises NodeNotFound for a table that is no node
find_shortest_path_Unguarded(g, source_arg, target_arg, max_hops) ==
    LET source == Upper(source_arg)
        target == Upper(target_arg)
    IN  IF source \notin Nodes(g) \/ target \notin Nodes(g)
        THEN {[kind |-> "NodeNotFound"]}
        ELSE LET paths == nx_shortest_path(g, source, target)
             IN  IF paths = {} THEN {NoneVal}
                 ELSE { IF Len(path) - 1 > max_hops THEN NoneVal
                        ELSE JoinPathOf(g, source, target, path) : path \in paths }

\* find_shortest_path, were a self-referencing edge taken as the path from a
\* table to itself
find_shortest_path_TakesSelfLoop(g, source_arg, target_arg, max_hops) ==
    LET source == Upper(source_arg)
        target == Upper(target_arg)
    IN  IF source \notin Nodes(g) THEN {NoneVal}
        ELSE IF target \notin Nodes(g) THEN {NoneVal}
        ELSE LET paths == IF source = target /\ HasEdge(g, source, source)
                          THEN {<<source, source>>}
                          ELSE nx_shortest_path(g, source, target)
             IN  IF paths = {} THEN {NoneVal}
                 ELSE { IF Len(path) - 1 > max_hops THEN NoneVal
                        ELSE JoinPathOf(g, source, target, path) : path \in paths }

\* TableGraph.find_shortest_path: the set of values the call may return
\* (one JoinPath per shortest path the library may pick, or None)
find_shortest_path(g, source_arg, target_arg, max_hops) ==
    LET source == Upper(source_arg)
        target == Upper(target_arg)
    IN  IF source \notin Nodes(g) THEN {NoneVal}
        ELSE IF target \notin Nodes(g) THEN {NoneVal}
        ELSE LET paths == nx_shortest_path(g, source, target)
             IN  IF paths = {} THEN {NoneVal}
                 ELSE { IF Len(path) - 1 > max_hops THEN NoneVal
                        ELSE JoinPathOf(g, source, target, path) : path \in paths }

\* TableGraph.get_direct_relationship
get_direct_relationship(g, a_arg, b_arg) ==
    LET table_a == Upper(a_arg)
        table_b == Upper(b_arg)
    IN  IF ~HasEdge(g, table_a, table_b) THEN NoneVal
        ELSE LET edge_data == g[table_a][table_b]
             IN  [kind |-> "Relationship",
                  parent_table |-> edge_data.parent,
                  child_table |-> edge_data.child,
                  parent_columns |-> edge_data.parent_columns,
                  child_columns |-> edge_data.child_columns,
                  constraint_name |-> edge_data.constraint_name,
                  join_condition |->
                      format_join_condition(table_a, table_b, edge_data)]

\* TableGraph.get_stats: number_of_nodes, and number_of_edges, which counts
\* an undirected edge once and a self-loop once
get_stats(g) ==
    [tables |-> Cardinality(Nodes(g)),
     relationships |->
         Cardinality({{e[1], e[2]} :
                      e \in {x \in Nodes(g) \X Nodes(g) : HasEdge(g, x[1], x[2])}})]

\* some list holding the elements of a set, each once
RECURSIVE ListOf(_)
ListOf(S) ==
    IF S = {} THEN << >>
    ELSE LET x == CHOOSE y \in S : TRUE IN <<x>> \o ListOf(S \ {x})

\* the sort key (distance, table_name) of get_related_tables, compared as
\* Python compares tuples
RelatedBefore(a, b) ==
    \/ a.distance < b.distance
    \/ a.distance = b.distance /\ StrRank(a.table_name) < StrRank(b.table_name)

\* get_related_tables, were its sort key the table name alone
get_related_tables_SortByName(g, table_arg, max_hops) ==
    LET table_name == Upper(table_arg)
    IN  IF table_name \notin Nodes(g) THEN << >>
        ELSE LET lengths ==
                     nx_single_source_shortest_path_length(g, table_name, max_hops)
                 related ==
                     ListOf({[table_name |-> other_table, distance |-> lengths[other_table]] :
                             other_table \in (DOMAIN lengths) \ {table_name}})
             IN  SortSeq(related,
                         LAMBDA a, b : StrRank(a.table_name) < StrRank(b.table_name))

\* TableGraph.get_related_tables
get_related_tables(g, table_arg, max_hops) ==
    LET table_name == Upper(table_arg)
    IN  IF table_name \notin Nodes(g) THEN << >>
        ELSE LET lengths ==
                     nx_single_source_shortest_path_length(g, table_name, max_hops)
                 related ==
                     ListOf({[table_name |-> other_table, distance |-> lengths[other_table]] :
                             other_table \in (DOMAIN lengths) \ {table_name}})
             IN  SortSeq(related, RelatedBefore)

-----------------------------------------------------------------------------
(* Python dict, which keeps its keys in insertion order *)

EmptyOD == [keys |-> << >>, map |-> EmptyDict]

\* d[k] = v: a new key goes last, a known key keeps its place
ODPut(d, k, v) ==
    [keys |-> IF k \in DOMAIN d.map THEN d.keys ELSE Append(d.keys, k),
     map |-> DictPut(d.map, k, v)]

\* list(d.values())
ODValues(d) == [i \in 1..Len(d.keys) |-> d.map[d.keys[i]]]

-----------------------------------------------------------------------------
(* CHECK constraint texts, as token lists: a word (a maximal run of \w:     *)
(* identifier, keyword or number), a run of blanks, or any other character  *)
(* on its own (quotes, parentheses, commas, ...). No two words and no two   *)
(* blank runs are adjacent.                                                 *)

Word(s) == [k |-> "word", s |-> s]

Sym(s) == [k |-> "sym", s |-> s]

Sp == [k |-> "sp", s |-> " "]

Q == Sym("'")

DQ == Sym("\"")

\* 'x', the SQL string literal
Str(s) == <<Q, Word(s), Q>>

\* "x", the quoted identifier
Qid(s) == <<DQ, Word(s), DQ>>

\* ('x', 'y') and (1, 2): a parenthesised list of two items
List2(a, b) == <<Sym("(")>> \o a \o <<Sym(","), Sp>> \o b \o <<Sym(")")>>

ConstraintTexts ==
    { \* STATUS IN ('ACTIVE', 'INACTIVE')
      <<Word("STATUS"), Sp, Word("IN"), Sp>> \o List2(Str("ACTIVE"), Str("INACTIVE")),
      \* status in('PENDING', 'ACTIVE')
      <<Word("status"), Sp, Word("in")>> \o List2(Str("PENDING"), Str("ACTIVE")),
      \* "STATUS" IN ('INACTIVE')
      Qid("STATUS") \o <<Sp, Word("IN"), Sp, Sym("(")>> \o Str("INACTIVE") \o <<Sym(")")>>,
      \* KIND IN (1, 2)
      <<Word("KIND"), Sp, Word("IN"), Sp>> \o List2(<<Word("1")>>, <<Word("2")>>),
      \* "STATUS" IS NOT NULL
      Qid("STATUS") \o <<Sp, Word("IS"), Sp, Word("NOT"), Sp, Word("NULL")>>,
      \* KIND > 0 OR STATUS IN ('ACTIVE', 2)
      <<Word("KIND"), Sp, Sym(">"), Sp, Word("0"), Sp, Word("OR"), Sp,
        Word("STATUS"), Sp, Word("IN"), Sp>> \o List2(Str("ACTIVE"), <<Word("2")>>),
      \* KIND IN (LO, HI): a list of columns
      <<Word("KIND"), Sp, Word("IN"), Sp>> \o List2(<<Word("LO")>>, <<Word("HI")>>),
      \* STATUS IN ('O''BRIEN', 'ACTIVE'): a literal with an escaped quote
      <<Word("STATUS"), Sp, Word("IN"), Sp>>
        \o List2(<<Q, Word("O"), Q, Q, Word("BRIEN"), Q>>, Str("ACTIVE")),
      \* STATUS IN ('ACTIVE', 'ACTIVE')
      <<Word("STATUS"), Sp, Word("IN"), Sp>> \o List2(Str("ACTIVE"), Str("ACTIVE")),
      \* KIND IN (LO, HI) OR STATUS IN ('ACTIVE')
      <<Word("KIND"), Sp, Word("IN"), Sp>> \o List2(<<Word("LO")>>, <<Word("HI")>>)
        \o <<Sp, Word("OR"), Sp, Word("STATUS"), Sp, Word("IN"), Sp, Sym("(")>>
        \o Str("ACTIVE") \o <<Sym(")")>>,
      \* STATUS IN ('ACTIVE') AND KIND IN (1, 2)
      <<Word("STATUS"), Sp, Word("IN"), Sp, Sym("(")>> \o Str("ACTIVE")
        \o <<Sym(")"), Sp, Word("AND"), Sp, Word("KIND"), Sp, Word("IN"), Sp>>
        \o List2(<<Word("1")>>, <<Word("2")>>) }

\* IN, matched with re.IGNORECASE
IsIN(t) == t.k = "word" /\ t.s \in {"IN", "in", "In", "iN"}

\* \b\d+\b: a word made of digits only
IsNumber(t) == t.k = "word" /\ t.s \in {"0", "1", "2", "3"}

IsQuote(t) == t = Q \/ t = DQ

\* the pattern  ["\']?(\w+)["\']?\s+IN\s*\(\s*([^)]+)\s*\)  matched from
\* position i of the text on: NoneVal, or the place of the word, of the
\* opening parenthesis and of the first closing one after it
match_at(text, i) ==
    LET n == Len(text)
        Closed(w, o, close) ==
            IF close > o + 1
            THEN [kind |-> "match", word |-> w, open |-> o, close |-> close]
            ELSE NoneVal
        Values(w, o, closes) ==
            IF closes = {} THEN NoneVal
            ELSE Closed(w, o, CHOOSE j \in closes : \A c \in closes : j <= c)
        Opened(w, s, o) ==
            IF /\ o <= n
               /\ text[w].k = "word"
               /\ text[s] = Sp
               /\ IsIN(text[s + 1])
               /\ text[o] = Sym("(")
            THEN Values(w, o, {j \in (o + 1)..n : text[j] = Sym(")")})
            ELSE NoneVal
        Named(w, s) ==
            Opened(w, s, IF s + 2 <= n /\ text[s + 2] = Sp THEN s + 3 ELSE s + 2)
        Quoted(w) ==
            Named(w, IF w + 1 <= n /\ IsQuote(text[w + 1]) THEN w + 2 ELSE w + 1)
    IN  Quoted(IF i <= n /\ IsQuote(text[i]) THEN i + 1 ELSE i)

\* re.search: the match at the leftmost position that has one
re_search(text) ==
    LET Leftmost(at) ==
            IF at = {} THEN NoneVal
            ELSE match_at(text, CHOOSE i \in at : \A j \in at : i <= j)
    IN  Leftmost({i \in 1..Len(text) : match_at(text, i) # NoneVal})

\* the characters of a token list, as one str
RECURSIVE TextOf(_)
TextOf(tokens) ==
    IF Len(tokens) = 0 THEN "" ELSE Head(tokens).s \o TextOf(Tail(tokens))

\* re.findall(r"'([^']*)'", values_str): from the left, each stretch between
\* a quote and the next quote
RECURSIVE findall_quoted(_)
findall_quoted(tokens) ==
    LET Found(first, second) ==
            <<TextOf(SubSeq(tokens, first + 1, second - 1))>>
                \o findall_quoted(SubSeq(tokens, second + 1, Len(tokens)))
        Closing(first, later) ==
            IF later = {} THEN << >>
            ELSE Found(first, CHOOSE i \in later : \A j \in later : i <= j)
        Opening(quotes, first) == Closing(first, {i \in quotes : i > first})
        Quotes(quotes) ==
            IF quotes = {} THEN << >>
            ELSE Opening(quotes, CHOOSE i \in quotes : \A j \in quotes : i <= j)
    IN  Quotes({i \in DOMAIN tokens : tokens[i] = Q})

\* re.findall(r'\b(\d+)\b', values_str)
findall_numbers(tokens) ==
    LET found == SelectSeq(tokens, IsNumber)
    IN  [i \in 1..Len(found) |-> found[i].s]

\* EnumExtractor._parse_check_constraint: NoneVal when nothing matches or no
\* value is found
parse_check_constraint(search_condition) ==
    LET Parsed(column_name, values) ==
            IF Len(values) > 0
            THEN [kind |-> "parsed", column_name |-> column_name,
                  values |-> values]
            ELSE NoneVal
        Found(quoted_values, number_values) ==
            IF Len(quoted_values) > 0 THEN quoted_values ELSE number_values
        Listed(column_name, values_str) ==
            Parsed(column_name,
                   Found(findall_quoted(values_str), findall_numbers(values_str)))
        Matched(match) ==
            IF match = NoneVal THEN NoneVal
            ELSE Listed(search_condition[match.word].s,
                        SubSeq(search_condition, match.open + 1, match.close - 1))
    IN  Matched(re_search(search_condition))

-----------------------------------------------------------------------------
(* EnumExtractor *)

EnumValue(code, meaning) == [code |-> code, meaning |-> meaning]

EnumInfo(table_name, column_name, values, source) ==
    [table_name |-> table_name, column_name |-> column_name,
     values |-> values, source |-> source]

\* key = f"{enum.table_name}.{enum.column_name}"
KeyOf(enum) == enum.table_name \o "." \o enum.column_name

\* the rows of CHECK_CONSTRAINT_QUERY: the table name as the data dictionary
\* holds it, and the search condition
Rows ==
    {[table_name |-> t, search_condition |-> c] :
        t \in {"ACCOUNTS"}, c \in ConstraintTexts}

RowLists == UNION {[1..n -> Rows] : n \in 0..MaxRows}

\* _extract_from_check_constraints, were it to stop at the first row it
\* cannot parse
RECURSIVE extract_from_check_constraints_StopsAtSkipped(_)
extract_from_check_constraints_StopsAtSkipped(cursor) ==
    LET Derived(row, parsed) ==
            IF parsed = NoneVal THEN << >>
            ELSE <<EnumInfo(row.table_name, parsed.column_name,
                            [i \in 1..Len(parsed.values) |->
                                EnumValue(parsed.values[i], PyNone)],
                            "check_constraint")>>
                    \o extract_from_check_constraints_StopsAtSkipped(Tail(cursor))
        Row(row) == Derived(row, parse_check_constraint(row.search_condition))
    IN  IF Len(cursor) = 0 THEN << >> ELSE Row(Head(cursor))

\* EnumExtractor._extract_from_check_constraints
RECURSIVE extract_from_check_constraints(_)
extract_from_check_constraints(cursor) ==
    LET Derived(row, parsed) ==
            IF parsed = NoneVal THEN << >>
            ELSE <<EnumInfo(row.table_name, parsed.column_name,
                            [i \in 1..Len(parsed.values) |->
                                EnumValue(parsed.values[i], PyNone)],
                            "check_constraint")>>
        Row(row) == Derived(row, parse_check_constraint(row.search_condition))
    IN  IF Len(cursor) = 0 THEN << >>
        ELSE Row(Head(cursor)) \o extract_from_check_constraints(Tail(cursor))

\* an item of a YAML values list: a dict with a code and maybe a meaning, or
\* something that is no dict
Item(code, meaning) == [isdict |-> TRUE, code |-> code, meaning |-> meaning]

NonDict == [isdict |-> FALSE]

Items ==
    { Item("ACTIVE", "Account is active"),
      Item("ACTIVE", "Enabled"),
      Item("PENDING", PyNone),
      NonDict }

ValuesLists == UNION {[1..n -> Items] : n \in 0..MaxValues}

\* one (table, column) entry of the YAML file, its names as written
YamlEntries ==
    {[table_name |-> t, column_name |-> c, values_list |-> vl] :
        t \in {"accounts"}, c \in {"STATUS", "status", "KIND"},
        vl \in ValuesLists}

\* _load_manual_overrides, were it to keep only the values that have a meaning
load_manual_override_NeedsMeaning(entry) ==
    LET dicts == SelectSeq(entry.values_list,
                           LAMBDA v : v.isdict /\ v.meaning # PyNone)
        values == [i \in 1..Len(dicts) |-> EnumValue(dicts[i].code, dicts[i].meaning)]
    IN  IF Len(values) > 0
        THEN <<EnumInfo(Upper(entry.table_name), Upper(entry.column_name),
                        values, "manual")>>
        ELSE << >>

\* EnumExtractor._load_manual_overrides, for one entry of the file: the
\* EnumInfo it appends, in a list, or the empty list when it appends none
load_manual_override(entry) ==
    LET dicts == SelectSeq(entry.values_list, LAMBDA v : v.isdict)
        values == [i \in 1..Len(dicts) |-> EnumValue(dicts[i].code, dicts[i].meaning)]
    IN  IF Len(values) > 0
        THEN <<EnumInfo(Upper(entry.table_name), Upper(entry.column_name),
                        values, "manual")>>
        ELSE << >>

\* manual_meanings = {v.code: v.meaning for v in enum.values}
RECURSIVE MeaningsDict(_)
MeaningsDict(values) ==
    IF Len(values) = 0 THEN EmptyDict
    ELSE LET n == Len(values)
         IN  DictPut(MeaningsDict(SubSeq(values, 1, n - 1)),
                     values[n].code, values[n].meaning)

\* extract_all, the first loop: each derived enum is stored under its key
RECURSIVE store_derived(_, _)
store_derived(d, derived) ==
    IF Len(derived) = 0 THEN d
    ELSE store_derived(ODPut(d, KeyOf(Head(derived)), Head(derived)), Tail(derived))

\* the merge, were the manual enum to replace whatever the key holds
merge_manual_Replace(d, enum) == ODPut(d, KeyOf(enum), enum)

\* the merge, were it to add the manual values whose code the key lacks
merge_manual_AddsCodes(d, enum) ==
    LET key == KeyOf(enum)
    IN  IF key \in DOMAIN d.map
        THEN LET existing == d.map[key]
                 manual_meanings == MeaningsDict(enum.values)
                 annotated ==
                     [i \in 1..Len(existing.values) |->
                         IF existing.values[i].code \in DOMAIN manual_meanings
                         THEN EnumValue(existing.values[i].code,
                                        manual_meanings[existing.values[i].code])
                         ELSE existing.values[i]]
                 added ==
                     SelectSeq(enum.values,
                               LAMBDA v : \A i \in DOMAIN existing.values :
                                              existing.values[i].code # v.code)
             IN  ODPut(d, key, [existing EXCEPT !.values = annotated \o added])
        ELSE ODPut(d, key, enum)

\* extract_all, one iteration of the second loop, for the manual enum
merge_manual(d, enum) ==
    LET key == KeyOf(enum)
    IN  IF key \in DOMAIN d.map
        THEN LET existing == d.map[key]
                 manual_meanings == MeaningsDict(enum.values)
                 annotated ==
                     [i \in 1..Len(existing.values) |->
                         IF existing.values[i].code \in DOMAIN manual_meanings
                         THEN EnumValue(existing.values[i].code,
                                        manual_meanings[existing.values[i].code])
                         ELSE existing.values[i]]
             IN  ODPut(d, key, [existing EXCEPT !.values = annotated])
        ELSE ODPut(d, key, enum)

\* EnumExtractor.get_enum_for_column, all_enums being what extract_all
\* returns: the first enum stored under the upper-cased names, or None
get_enum_for_column(all_enums, table_name, column_name) ==
    LET key == Upper(table_name) \o "." \o Upper(column_name)
        found == {i \in DOMAIN all_enums : KeyOf(all_enums[i]) = key}
    IN  IF found = {} THEN NoneVal
        ELSE all_enums[CHOOSE i \in found : \A j \in found : i <= j]

-----------------------------------------------------------------------------
(* The operations on one TableGraph, made by a synchronous caller: a call  *)
(* leaves its return value in res, and the caller takes it (Return) before *)
(* its next call.                                                          *)

Idle == [op |-> "idle"]

\* the unordered pair of canonical table names a fact is about
PairOf(f) == {Upper(f.parent_table), Upper(f.child_table)}

\* the history of pairs after the calls for a list of facts, in order
RECURSIVE NoteFacts(_, _)
NoteFacts(h, fs) ==
    IF Len(fs) = 0 THEN h
    ELSE NoteFacts(DictPut(h, PairOf(Head(fs)), Head(fs)), Tail(fs))

\* no iteration of extract_all's second loop is under way
NoStep == [op |-> "none"]

Init ==
    /\ adj = EmptyGraph
    /\ ncalls = 0
    /\ last = EmptyDict
    /\ res = Idle
    /\ epc = "start"
    /\ enums = EmptyOD
    /\ used = << >>
    /\ estep = NoStep
    /\ cache_tables = EmptyDict
    /\ cache_enums = EmptyDict
    /\ cache_relationships = EmptyDict
    /\ graph = NoneVal
    /\ nwrites = 0
    /\ tres = Idle
    /\ cache_sync_metadata = EmptyDict
    /\ fetched = NoneVal
    /\ lastrel = EmptyDict

AddRelationship ==
    /\ res = Idle
    /\ ncalls < MaxFacts
    /\ \E f \in FactUniverse :
        /\ adj' = add_relationship(adj, f.parent_table, f.child_table,
                                   f.parent_columns, f.child_columns,
                                   f.constraint_name)
        /\ ncalls' = ncalls + 1
        /\ last' = NoteFacts(last, <<f>>)
        /\ res' = [op |-> "add_relationship", fact |-> f, before |-> adj,
                   out |-> NoneVal]
    /\ UNCHANGED evars
    /\ UNCHANGED tvars

FactLists == UNION {[1..n -> FactUniverse] : n \in 0..MaxBuild}

\* build_from_relationships, called as the repository calls it: on a newly
\* made TableGraph (tools/find_path.py, _get_graph)
BuildFromRelationships ==
    /\ res = Idle
    /\ ncalls = 0
    /\ \E relationships \in FactLists :
        /\ adj' = build_from_relationships(adj, relationships)
        /\ ncalls' = Len(relationships)
        /\ last' = NoteFacts(last, relationships)
        /\ res' = [op |-> "build_from_relationships",
                   relationships |-> relationships, before |-> adj,
                   out |-> NoneVal]
    /\ UNCHANGED evars
    /\ UNCHANGED tvars

FindShortestPath ==
    /\ res = Idle
    /\ \E source \in QueryNames, target \in QueryNames, max_hops \in 0..MaxHopsArg :
        \E out \in find_shortest_path(adj, source, target, max_hops) :
            /\ res' = [op |-> "find_shortest_path", source |-> source,
                       target |-> target, max_hops |-> max_hops, out |-> out]
            /\ UNCHANGED <<adj, ncalls, last>>
            /\ UNCHANGED evars
    /\ UNCHANGED tvars

\* get_related_tables, were it to add the table it is asked about to the
\* graph when the graph lacks it
GetRelatedTables_AddsNode ==
    /\ res = Idle
    /\ \E table_name \in QueryNames, max_hops \in 0..MaxHopsArg :
        /\ res' = [op |-> "get_related_tables", table_name |-> table_name,
                   max_hops |-> max_hops,
                   out |-> get_related_tables(adj, table_name, max_hops)]
        /\ adj' = IF Upper(table_name) \in Nodes(adj) THEN adj
                  ELSE DictPut(adj, Upper(table_name), EmptyDict)
        /\ UNCHANGED <<ncalls, last>>
        /\ UNCHANGED evars
    /\ UNCHANGED tvars

GetRelatedTables ==
    /\ res = Idle
    /\ \E table_name \in QueryNames, max_hops \in 0..MaxHopsArg :
        /\ res' = [op |-> "get_related_tables", table_name |-> table_name,
                   max_hops |-> max_hops,
                   out |-> get_related_tables(adj, table_name, max_hops)]
        /\ UNCHANGED <<adj, ncalls, last>>
        /\ UNCHANGED evars
    /\ UNCHANGED tvars

GetDirectRelationship ==
    /\ res = Idle
    /\ \E table_a \in QueryNames, table_b \in QueryNames :
        /\ res' = [op |-> "get_direct_relationship", table_a |-> table_a,
                   table_b |-> table_b,
                   out |-> get_direct_relationship(adj, table_a, table_b)]
        /\ UNCHANGED <<adj, ncalls, last>>
        /\ UNCHANGED evars
    /\ UNCHANGED tvars

GetStats ==
    /\ res = Idle
    /\ res' = [op |-> "get_stats", out |-> get_stats(adj)]
    /\ UNCHANGED <<adj, ncalls, last>>
    /\ UNCHANGED evars
    /\ UNCHANGED tvars

Return ==
    /\ res # Idle
    /\ res' = Idle
    /\ UNCHANGED <<adj, ncalls, last>>
    /\ UNCHANGED evars
    /\ UNCHANGED tvars

Next ==
    \/ AddRelationship
    \/ BuildFromRelationships
    \/ FindShortestPath
    \/ GetRelatedTables
    \/ GetDirectRelationship
    \/ GetStats
    \/ Return

Spec == Init /\ [][Next]_vars

-----------------------------------------------------------------------------
(* One call of EnumExtractor.extract_all, a step per loop: the rows of the  *)
(* CHECK constraint query, then the entries of the manual overrides file,   *)
(* one per iteration, then the return.                                      *)

\* if self._conn: the derived enums are stored, one per key
LoadCheckConstraints ==
    /\ epc = "start"
    /\ \E cursor \in RowLists :
        /\ enums' = store_derived(enums, extract_from_check_constraints(cursor))
        /\ estep' = [op |-> "derived", cursor |-> cursor,
                     derived |-> extract_from_check_constraints(cursor)]
    /\ epc' = "manual"
    /\ UNCHANGED used
    /\ UNCHANGED gvars
    /\ UNCHANGED tvars

\* self._conn is None: only the manual overrides are loaded
NoConnection ==
    /\ epc = "start"
    /\ epc' = "manual"
    /\ UNCHANGED <<enums, used, estep>>
    /\ UNCHANGED gvars
    /\ UNCHANGED tvars

\* a YAML mapping has each key once, and the entries of one table together
MayFollow(entry, read) ==
    /\ \A i \in DOMAIN read : read[i] # <<entry.table_name, entry.column_name>>
    /\ (\E i \in DOMAIN read : read[i][1] = entry.table_name) =>
            read[Len(read)][1] = entry.table_name

\* the next entry of the manual overrides file: _load_manual_overrides makes
\* an EnumInfo of it, or nothing, and the second loop merges or stores it
MergeManual ==
    /\ epc = "manual"
    /\ estep = NoStep
    /\ Len(used) < MaxManual
    /\ \E entry \in YamlEntries :
        /\ MayFollow(entry, used)
        /\ LET loaded == load_manual_override(entry)
           IN  enums' = IF Len(loaded) = 0 THEN enums
                        ELSE merge_manual(enums, loaded[1])
        /\ used' = Append(used, <<entry.table_name, entry.column_name>>)
        /\ estep' = [op |-> "manual", entry |-> entry, before |-> enums]
    /\ UNCHANGED epc
    /\ UNCHANGED gvars
    /\ UNCHANGED tvars

\* back at the head of the loop
NextIteration ==
    /\ epc = "manual"
    /\ estep # NoStep
    /\ estep' = NoStep
    /\ UNCHANGED <<epc, enums, used>>
    /\ UNCHANGED gvars
    /\ UNCHANGED tvars

\* return list(enums.values())
ReturnEnums ==
    /\ epc = "manual"
    /\ estep = NoStep
    /\ epc' = "done"
    /\ estep' = [op |-> "return", out |-> ODValues(enums)]
    /\ UNCHANGED <<enums, used>>
    /\ UNCHANGED gvars
    /\ UNCHANGED tvars

\* the names get_enum_for_column is called with
LookupTables == {"ACCOUNTS", "accounts"}

LookupColumns == {"STATUS", "status", "KIND"}

\* get_enum_for_column on the extractor whose extract_all has returned: it
\* calls extract_all again, which reads the same constraints and the same
\* file and so returns the same list
GetEnumForColumn ==
    /\ epc = "done"
    /\ estep.op = "return"
    /\ \E table_name \in LookupTables, column_name \in LookupColumns :
        estep' = [op |-> "get_enum_for_column", all_enums |-> estep.out,
                  table_name |-> table_name, column_name |-> column_name,
                  out |-> get_enum_for_column(estep.out, table_name, column_name)]
    /\ UNCHANGED <<epc, enums, used>>
    /\ UNCHANGED gvars
    /\ UNCHANGED tvars

EnumNext ==
    \/ LoadCheckConstraints
    \/ NoConnection
    \/ MergeManual
    \/ NextIteration
    \/ ReturnEnums
    \/ GetEnumForColumn

EnumSpec == Init /\ [][EnumNext]_vars


-----------------------------------------------------------------------------
(* SQLiteCache (storage/sqlite_cache.py): the tables "tables", "enums" and  *)
(* "relationships", each a dict from primary key to row. Of a table's row   *)
(* the model keeps the name and the columns, which the tools read.          *)

Col(name, data_type) == [name |-> name, data_type |-> data_type]

\* SQLiteCache.upsert_table
upsert_table(rows, data) ==
    DictPut(rows, Upper(data.table_name),
            [table_name |-> Upper(data.table_name), columns |-> data.columns])

\* SQLiteCache.get_table
get_table(rows, table_name) ==
    IF Upper(table_name) \in DOMAIN rows THEN rows[Upper(table_name)] ELSE NoneVal

\* SQLiteCache.upsert_enum
upsert_enum(rows, data) ==
    LET enum_id == Upper(data.table_name) \o "." \o Upper(data.column_name)
    IN  DictPut(rows, enum_id,
                [table_name |-> Upper(data.table_name),
                 column_name |-> Upper(data.column_name),
                 values |-> data.values, source |-> data.source])

\* SQLiteCache.get_enum
get_enum(rows, table_name, column_name) ==
    LET enum_id == Upper(table_name) \o "." \o Upper(column_name)
    IN  IF enum_id \in DOMAIN rows THEN rows[enum_id] ELSE NoneVal

\* upsert_relationship, were the row keyed by the two tables in either order
upsert_relationship_Unordered(rows, data) ==
    LET parent == Upper(data.parent_table)
        child == Upper(data.child_table)
        rel_id == IF StrRank(child) < StrRank(parent) THEN child \o "->" \o parent
                  ELSE parent \o "->" \o child
    IN  DictPut(rows, rel_id,
                [parent_table |-> parent, child_table |-> child,
                 parent_columns |-> data.parent_columns,
                 child_columns |-> data.child_columns,
                 constraint_name |-> data.constraint_name])

\* SQLiteCache.upsert_relationship
upsert_relationship(rows, data) ==
    LET parent == Upper(data.parent_table)
        child == Upper(data.child_table)
        rel_id == child \o "->" \o parent
    IN  DictPut(rows, rel_id,
                [parent_table |-> parent, child_table |-> child,
                 parent_columns |-> data.parent_columns,
                 child_columns |-> data.child_columns,
                 constraint_name |-> data.constraint_name])

\* SQLiteCache.get_all_relationships: the rows, each once; the query has no
\* ORDER BY, so the order is the database's choice and the model gives the
\* set of all orders
get_all_relationships(rows) ==
    LET n == Cardinality(DOMAIN rows)
        orders == {o \in [1..n -> DOMAIN rows] :
                      \A i, j \in 1..n : o[i] = o[j] => i = j}
    IN  {[i \in 1..n |-> rows[o[i]]] : o \in orders}

\* SQLiteCache.update_last_sync_time: the one row "last_sync_time"
update_last_sync_time(rows, now) ==
    DictPut(rows, "last_sync_time", [key |-> "last_sync_time", value |-> now])

\* get_relationship, were it to try the first direction only
get_relationship_OneDirection(rows, table_a, table_b) ==
    LET a == Upper(table_a)
        b == Upper(table_b)
    IN  IF (b \o "->" \o a) \in DOMAIN rows THEN rows[b \o "->" \o a]
        ELSE NoneVal

\* SQLiteCache.get_relationship
get_relationship(rows, table_a, table_b) ==
    LET a == Upper(table_a)
        b == Upper(table_b)
    IN  IF (b \o "->" \o a) \in DOMAIN rows THEN rows[b \o "->" \o a]
        ELSE IF (a \o "->" \o b) \in DOMAIN rows THEN rows[a \o "->" \o b]
        ELSE NoneVal

-----------------------------------------------------------------------------
(* The tools (tools/find_path.py, tools/get_enum.py) *)

\* _get_graph: the graphs the call may leave in _graph and return, given the
\* _graph it finds
get_graph(g, rows) ==
    IF g = NoneVal
    THEN {build_from_relationships(EmptyGraph, relationships) :
            relationships \in get_all_relationships(rows)}
    ELSE {g}

\* list[:n]
Slice(list, n) == SubSeq(list, 1, IF Len(list) < n THEN Len(list) ELSE n)

\* the failure, were the lists of related tables not cut at five
no_path_result_Uncut(g, source_table, target_table, max_hops) ==
    LET related_source == get_related_tables(g, Upper(source_table), 2)
        related_target == get_related_tables(g, Upper(target_table), 2)
    IN  [success |-> FALSE,
         message |-> "No join path found between '" \o Upper(source_table)
                     \o "' and '" \o Upper(target_table) \o "' within "
                     \o ToString(max_hops) \o " hops.",
         source_related_tables |->
             [i \in DOMAIN related_source |-> related_source[i].table_name],
         target_related_tables |->
             [i \in DOMAIN related_target |-> related_target[i].table_name]]

\* the failure of find_join_path when no path is returned
no_path_result(g, source_table, target_table, max_hops) ==
    LET related_source == get_related_tables(g, Upper(source_table), 2)
        related_target == get_related_tables(g, Upper(target_table), 2)
    IN  [success |-> FALSE,
         message |-> "No join path found between '" \o Upper(source_table)
                     \o "' and '" \o Upper(target_table) \o "' within "
                     \o ToString(max_hops) \o " hops.",
         source_related_tables |->
             [i \in DOMAIN Slice(related_source, 5) |-> related_source[i].table_name],
         target_related_tables |->
             [i \in DOMAIN Slice(related_target, 5) |-> related_target[i].table_name]]

\* the success of find_join_path for a path
path_result(source_table, path) ==
    LET sql_joins == [i \in DOMAIN path.steps |->
                         "JOIN " \o path.steps[i].to_table \o " ON "
                         \o path.steps[i].join_condition]
    IN  [success |-> TRUE, source |-> path.source, target |-> path.target,
         total_hops |-> path.total_hops,
         path |-> [i \in DOMAIN path.steps |->
                      [step |-> path.steps[i].step_number,
                       from_table |-> path.steps[i].from_table,
                       to_table |-> path.steps[i].to_table,
                       join_condition |-> path.steps[i].join_condition,
                       constraint_name |-> path.steps[i].constraint_name]],
         sql_example |-> "SELECT *\nFROM " \o Upper(source_table) \o "\n"
                         \o StrJoin("\n", sql_joins)]

\* find_join_path, after _get_graph has returned g: the set of values the
\* call may return
find_join_path(g, rows, source_table, target_table, max_hops) ==
    IF get_table(rows, source_table) = NoneVal
    THEN {[success |-> FALSE,
           error |-> "Table '" \o source_table \o "' not found."]}
    ELSE IF get_table(rows, target_table) = NoneVal
    THEN {[success |-> FALSE,
           error |-> "Table '" \o target_table \o "' not found."]}
    ELSE {IF path = NoneVal
          THEN no_path_result(g, source_table, target_table, max_hops)
          ELSE path_result(source_table, path) :
          path \in find_shortest_path(g, source_table, target_table, max_hops)}

\* get_join_pattern
get_join_pattern(rel_rows, table_rows, table_a, table_b) ==
    LET relationship == get_relationship(rel_rows, table_a, table_b)
    IN  IF relationship # NoneVal
        THEN LET pairs == Zip(relationship.parent_columns, relationship.child_columns)
                 conditions ==
                     [i \in DOMAIN pairs |->
                         relationship.child_table \o "." \o pairs[i][2] \o " = "
                         \o relationship.parent_table \o "." \o pairs[i][1]]
                 join_condition == StrJoin(" AND ", conditions)
             IN  [success |-> TRUE, relationship_type |-> "direct_fk",
                  parent_table |-> relationship.parent_table,
                  child_table |-> relationship.child_table,
                  join_condition |-> join_condition,
                  constraint_name |-> relationship.constraint_name,
                  sql_example |-> "SELECT *\nFROM " \o relationship.child_table
                                  \o " c\nJOIN " \o relationship.parent_table
                                  \o " p ON " \o join_condition]
        ELSE IF get_table(table_rows, table_a) = NoneVal
        THEN [success |-> FALSE,
              error |-> "Table '" \o table_a \o "' not found."]
        ELSE IF get_table(table_rows, table_b) = NoneVal
        THEN [success |-> FALSE,
              error |-> "Table '" \o table_b \o "' not found."]
        ELSE [success |-> FALSE,
              message |-> "No direct foreign key relationship between '"
                          \o Upper(table_a) \o "' and '" \o Upper(table_b) \o "'."]

\* get_enum_values, were it to look the table up before the enum
get_enum_values_TableFirst(enum_rows, table_rows, table_name, column_name) ==
    LET enum == get_enum(enum_rows, table_name, column_name)
        table == get_table(table_rows, table_name)
    IN  IF table = NoneVal
        THEN [success |-> FALSE,
              error |-> "Table '" \o table_name \o "' not found."]
        ELSE IF enum # NoneVal
        THEN [success |-> TRUE, table_name |-> enum.table_name,
              column_name |-> enum.column_name, source |-> enum.source,
              values |-> enum.values,
              usage_hint |-> "Use these exact values when filtering by "
                             \o table_name \o "." \o column_name]
        ELSE [success |-> FALSE, table_name |-> Upper(table_name),
              column_name |-> Upper(column_name),
              message |-> "No enum values are defined for this column."]

\* get_enum_values
get_enum_values(enum_rows, table_rows, table_name, column_name) ==
    LET enum == get_enum(enum_rows, table_name, column_name)
        table == get_table(table_rows, table_name)
    IN  IF enum # NoneVal
        THEN [success |-> TRUE, table_name |-> enum.table_name,
              column_name |-> enum.column_name, source |-> enum.source,
              values |-> enum.values,
              usage_hint |-> "Use these exact values when filtering by "
                             \o table_name \o "." \o column_name]
        ELSE IF table = NoneVal
        THEN [success |-> FALSE,
              error |-> "Table '" \o table_name \o "' not found."]
        ELSE LET found == {i \in DOMAIN table.columns :
                              Upper(table.columns[i].name) = Upper(column_name)}
             IN  IF found = {}
                 THEN [success |-> FALSE,
                       error |-> "Column '" \o column_name
                                 \o "' not found in table '" \o table_name \o "'.",
                       available_columns |->
                           [i \in DOMAIN Slice(table.columns, 20) |-> table.columns[i].name]]
                 ELSE LET column == table.columns[CHOOSE i \in found :
                                                     \A j \in found : i <= j]
                      IN  [success |-> FALSE, table_name |-> Upper(table_name),
                           column_name |-> Upper(column_name),
                           column_type |-> column.data_type,
                           message |-> "No enum values are defined for this column."]

-----------------------------------------------------------------------------
(* The cache being written by the ingest script and read by the tools of   *)
(* the server. A tool call is one step: the tools are coroutines that never *)
(* await, so the event loop runs each from its first line to its return.    *)

\* the dicts upsert_table is called with
TableData ==
    { [table_name |-> "orders", columns |-> <<Col("ID", "NUMBER")>>],
      [table_name |-> "ORDER_ITEMS", columns |-> <<Col("ID", "NUMBER")>>],
      [table_name |-> "CUSTOMERS", columns |-> <<Col("ID", "NUMBER")>>],
      [table_name |-> "accounts",
       columns |-> <<Col("ID", "NUMBER"), Col("status", "VARCHAR2")>>] }

\* the dicts upsert_enum is called with
EnumData ==
    { [table_name |-> "accounts", column_name |-> "status",
       values |-> <<EnumValue("ACTIVE", "Account is active")>>, source |-> "manual"],
      [table_name |-> "ACCOUNTS", column_name |-> "STATUS",
       values |-> <<EnumValue("ACTIVE", PyNone), EnumValue("INACTIVE", PyNone)>>,
       source |-> "check_constraint"],
      \* a column the table's row does not list
      [table_name |-> "ACCOUNTS", column_name |-> "KIND",
       values |-> <<EnumValue("1", PyNone)>>, source |-> "check_constraint"],
      \* a table that has no row
      [table_name |-> "PRODUCTS", column_name |-> "STATUS",
       values |-> <<EnumValue("NEW", PyNone)>>, source |-> "check_constraint"] }

\* the dicts upsert_relationship is called with
RelationshipData ==
    { Fact("ORDERS", "ORDER_ITEMS", <<"ID">>, <<"ORDER_ID">>, "FK_OI_ORDER"),
      Fact("orders", "Order_Items", <<"ID", "REGION">>, <<"ORDER_ID", "REGION">>, PyNone),
      Fact("ORDER_ITEMS", "ORDERS", <<"ID">>, <<"LAST_ITEM_ID">>, "FK_ORD_LAST"),
      Fact("CUSTOMERS", "ORDERS", <<"ID">>, <<"CUSTOMER_ID">>, "FK_ORD_CUST") }

\* the names the tools are called with
ToolTables == {"orders", "ORDER_ITEMS", "CUSTOMERS", "accounts"}

EnumTables == {"accounts", "ACCOUNTS", "PRODUCTS", "CUSTOMERS"}

EnumColumns == {"status", "STATUS", "KIND", "ID"}

\* the ingest script is another process than the server: it writes between
\* tool calls and while _get_graph builds
Writable == tres = Idle \/ tres.op = "_get_graph"

UpsertTable ==
    /\ Writable
    /\ nwrites < MaxWrites
    /\ \E data \in TableData :
        cache_tables' = upsert_table(cache_tables, data)
    /\ nwrites' = nwrites + 1
    /\ UNCHANGED <<cache_enums, cache_relationships, cache_sync_metadata, lastrel>>
    /\ UNCHANGED <<graph, fetched, tres>>
    /\ UNCHANGED <<gvars, evars>>

UpsertEnum ==
    /\ Writable
    /\ nwrites < MaxWrites
    /\ \E data \in EnumData :
        cache_enums' = upsert_enum(cache_enums, data)
    /\ nwrites' = nwrites + 1
    /\ UNCHANGED <<cache_tables, cache_relationships, cache_sync_metadata, lastrel>>
    /\ UNCHANGED <<graph, fetched, tres>>
    /\ UNCHANGED <<gvars, evars>>

UpsertRelationship ==
    /\ Writable
    /\ nwrites < MaxWrites
    /\ \E data \in RelationshipData :
        /\ cache_relationships' = upsert_relationship(cache_relationships, data)
        /\ lastrel' = DictPut(lastrel,
                              <<Upper(data.child_table), Upper(data.parent_table)>>,
                              data)
    /\ nwrites' = nwrites + 1
    /\ UNCHANGED <<cache_tables, cache_enums, cache_sync_metadata>>
    /\ UNCHANGED <<graph, fetched, tres>>
    /\ UNCHANGED <<gvars, evars>>

\* SQLiteCache.update_last_sync_time, the time being the count of writes
UpdateLastSyncTime ==
    /\ Writable
    /\ nwrites < MaxWrites
    /\ cache_sync_metadata' = update_last_sync_time(cache_sync_metadata, nwrites + 1)
    /\ nwrites' = nwrites + 1
    /\ UNCHANGED <<cache_tables, cache_enums, cache_relationships, lastrel>>
    /\ UNCHANGED <<graph, fetched, tres>>
    /\ UNCHANGED <<gvars, evars>>

\* SQLiteCache.clear_all
ClearAll ==
    /\ Writable
    /\ nwrites < MaxWrites
    /\ cache_tables' = EmptyDict
    /\ cache_enums' = EmptyDict
    /\ cache_relationships' = EmptyDict
    /\ cache_sync_metadata' = EmptyDict
    /\ lastrel' = EmptyDict
    /\ nwrites' = nwrites + 1
    /\ UNCHANGED <<graph, fetched, tres>>
    /\ UNCHANGED <<gvars, evars>>

\* _get_graph, were it to set _graph = TableGraph() before it reads the
\* cache: what the read raises leaves the empty graph in _graph
GetGraphRead_AssignsFirst ==
    /\ tres = Idle
    /\ graph = NoneVal
    /\ \E source_table \in ToolTables, target_table \in ToolTables,
          max_hops \in 0..MaxToolHops :
        \/ /\ \E relationships \in get_all_relationships(cache_relationships) :
                 tres' = [op |-> "_get_graph", pc |-> "new",
                          source_table |-> source_table,
                          target_table |-> target_table, max_hops |-> max_hops,
                          relationships |-> relationships, applied |-> 0]
           /\ UNCHANGED graph
        \/ /\ tres' = [op |-> "raised", tool |-> "find_join_path",
                       source_table |-> source_table,
                       target_table |-> target_table, max_hops |-> max_hops]
           /\ graph' = EmptyGraph
    /\ UNCHANGED fetched
    /\ UNCHANGED <<cache_tables, cache_enums, cache_relationships,
                   cache_sync_metadata, lastrel, nwrites>>
    /\ UNCHANGED <<gvars, evars>>

\* find_join_path called while _graph is None: _get_graph opens the cache
\* and reads the relationships, which either gives the list or raises (the
\* database file cannot be opened or read); call_tool turns what is raised
\* into an error text
GetGraphRead ==
    /\ tres = Idle
    /\ graph = NoneVal
    /\ \E source_table \in ToolTables, target_table \in ToolTables,
          max_hops \in 0..MaxToolHops :
        \/ \E relationships \in get_all_relationships(cache_relationships) :
              tres' = [op |-> "_get_graph", pc |-> "new",
                       source_table |-> source_table,
                       target_table |-> target_table, max_hops |-> max_hops,
                       relationships |-> relationships, applied |-> 0]
        \/ tres' = [op |-> "raised", tool |-> "find_join_path",
                    source_table |-> source_table,
                    target_table |-> target_table, max_hops |-> max_hops]
    /\ UNCHANGED <<graph, fetched>>
    /\ UNCHANGED <<cache_tables, cache_enums, cache_relationships,
                   cache_sync_metadata, lastrel, nwrites>>
    /\ UNCHANGED <<gvars, evars>>

\* _graph = TableGraph()
GetGraphNew ==
    /\ tres.op = "_get_graph"
    /\ tres.pc = "new"
    /\ graph' = EmptyGraph
    /\ fetched' = [kind |-> "list", relationships |-> tres.relationships]
    /\ tres' = [tres EXCEPT !.pc = "build"]
    /\ UNCHANGED <<cache_tables, cache_enums, cache_relationships,
                   cache_sync_metadata, lastrel, nwrites>>
    /\ UNCHANGED <<gvars, evars>>

\* _graph.build_from_relationships(relationships), one iteration of its loop
GetGraphAdd ==
    /\ tres.op = "_get_graph"
    /\ tres.pc = "build"
    /\ tres.applied < Len(tres.relationships)
    /\ graph' = build_from_relationships(
                    graph, <<tres.relationships[tres.applied + 1]>>)
    /\ tres' = [tres EXCEPT !.applied = tres.applied + 1]
    /\ UNCHANGED fetched
    /\ UNCHANGED <<cache_tables, cache_enums, cache_relationships,
                   cache_sync_metadata, lastrel, nwrites>>
    /\ UNCHANGED <<gvars, evars>>

\* find_join_path from the return of _get_graph on: the two get_table
\* checks and the answer from _graph
Answer(source_table, target_table, max_hops) ==
    \E out \in find_join_path(graph, cache_tables, source_table,
                              target_table, max_hops) :
        tres' = [op |-> "find_join_path", source_table |-> source_table,
                 target_table |-> target_table, max_hops |-> max_hops,
                 out |-> out]

\* the loop of build_from_relationships has ended: _get_graph returns _graph
\* and find_join_path goes on
GetGraphReturn ==
    /\ tres.op = "_get_graph"
    /\ tres.pc = "build"
    /\ tres.applied = Len(tres.relationships)
    /\ Answer(tres.source_table, tres.target_table, tres.max_hops)
    /\ UNCHANGED <<graph, fetched>>
    /\ UNCHANGED <<cache_tables, cache_enums, cache_relationships,
                   cache_sync_metadata, lastrel, nwrites>>
    /\ UNCHANGED <<gvars, evars>>

\* find_join_path called while _graph is set, about tables of a given set:
\* _get_graph returns _graph as it is
FindJoinPathAbout(tables) ==
    /\ tres = Idle
    /\ graph # NoneVal
    /\ \E source_table \in tables, target_table \in tables,
          max_hops \in 0..MaxToolHops :
        Answer(source_table, target_table, max_hops)
    /\ UNCHANGED <<graph, fetched>>
    /\ UNCHANGED <<cache_tables, cache_enums, cache_relationships,
                   cache_sync_metadata, lastrel, nwrites>>
    /\ UNCHANGED <<gvars, evars>>

FindJoinPath == FindJoinPathAbout(ToolTables)

GetEnumValues ==
    /\ tres = Idle
    /\ \E table_name \in EnumTables, column_name \in EnumColumns :
        tres' = [op |-> "get_enum_values", table_name |-> table_name,
                 column_name |-> column_name,
                 out |-> get_enum_values(cache_enums, cache_tables,
                                         table_name, column_name)]
    /\ UNCHANGED <<graph, fetched>>
    /\ UNCHANGED <<cache_tables, cache_enums, cache_relationships,
                   cache_sync_metadata, lastrel, nwrites>>
    /\ UNCHANGED <<gvars, evars>>

GetJoinPattern ==
    /\ tres = Idle
    /\ \E table_a \in ToolTables, table_b \in ToolTables :
        tres' = [op |-> "get_join_pattern", table_a |-> table_a,
                 table_b |-> table_b,
                 out |-> get_join_pattern(cache_relationships, cache_tables,
                                          table_a, table_b)]
    /\ UNCHANGED <<graph, fetched>>
    /\ UNCHANGED <<cache_tables, cache_enums, cache_relationships,
                   cache_sync_metadata, lastrel, nwrites>>
    /\ UNCHANGED <<gvars, evars>>

\* the server hands the result to the client
ToolReturn ==
    /\ tres # Idle
    /\ tres.op # "_get_graph"
    /\ tres' = Idle
    /\ UNCHANGED <<graph, fetched>>
    /\ UNCHANGED <<cache_tables, cache_enums, cache_relationships,
                   cache_sync_metadata, lastrel, nwrites>>
    /\ UNCHANGED <<gvars, evars>>

ToolNext ==
    \/ UpsertTable
    \/ UpsertEnum
    \/ UpsertRelationship
    \/ UpdateLastSyncTime
    \/ ClearAll
    \/ GetGraphRead
    \/ GetGraphNew
    \/ GetGraphAdd
    \/ GetGraphReturn
    \/ FindJoinPath
    \/ GetEnumValues
    \/ GetJoinPattern
    \/ ToolReturn

ToolSpec == Init /\ [][ToolNext]_vars

-----------------------------------------------------------------------------
(* find_join_path on a schema wide enough for a table to have more than    *)
(* five tables within two hops: the server after one run of the ingest     *)
(* script and a first query.                                               *)

\* the foreign keys of the schema
WideFacts ==
    { Fact("CUSTOMERS", "ORDERS", <<"ID">>, <<"CUSTOMER_ID">>, "FK_ORD_CUST"),
      Fact("ORDERS", "ORDER_ITEMS", <<"ID">>, <<"ORDER_ID">>, "FK_OI_ORDER"),
      Fact("PRODUCTS", "ORDER_ITEMS", <<"ID">>, <<"PRODUCT_ID">>, "FK_OI_PROD"),
      Fact("CUSTOMERS", "ADDRESSES", <<"ID">>, <<"CUSTOMER_ID">>, "FK_ADDR_CUST"),
      Fact("CUSTOMERS", "CONTACTS", <<"ID">>, <<"CUSTOMER_ID">>, "FK_CONT_CUST"),
      Fact("CUSTOMERS", "INVOICES", <<"ID">>, <<"CUSTOMER_ID">>, "FK_INV_CUST"),
      Fact("INVOICES", "PAYMENTS", <<"ID">>, <<"INVOICE_ID">>, "FK_PAY_INV"),
      Fact("CUSTOMERS", "TICKETS", <<"ID">>, <<"CUSTOMER_ID">>, "FK_TICK_CUST") }

\* its tables; ACCOUNTS has no foreign key
WideTables ==
    {"ACCOUNTS", "ADDRESSES", "CONTACTS", "CUSTOMERS", "INVOICES", "ORDERS",
     "ORDER_ITEMS", "PAYMENTS", "PRODUCTS", "TICKETS"}

\* the rows after upsert_table / upsert_relationship for each of a list
RECURSIVE upsert_tables(_, _)
upsert_tables(rows, list) ==
    IF Len(list) = 0 THEN rows
    ELSE upsert_tables(upsert_table(rows, Head(list)), Tail(list))

RECURSIVE upsert_relationships(_, _)
upsert_relationships(rows, list) ==
    IF Len(list) = 0 THEN rows
    ELSE upsert_relationships(upsert_relationship(rows, Head(list)), Tail(list))

\* the cache holds every table and some of the foreign keys (the ingest
\* script run on a schema that has those), and _graph was built from it
WideInit ==
    /\ adj = EmptyGraph
    /\ ncalls = 0
    /\ last = EmptyDict
    /\ res = Idle
    /\ epc = "start"
    /\ enums = EmptyOD
    /\ used = << >>
    /\ estep = NoStep
    /\ cache_enums = EmptyDict
    /\ cache_sync_metadata = EmptyDict
    /\ tres = Idle
    /\ cache_tables =
           upsert_tables(EmptyDict,
                         ListOf({[table_name |-> t, columns |-> <<Col("ID", "NUMBER")>>] :
                                 t \in WideTables}))
    /\ \E facts \in SUBSET WideFacts :
          /\ cache_relationships = upsert_relationships(EmptyDict, ListOf(facts))
          /\ lastrel = [k \in {<<f.child_table, f.parent_table>> : f \in facts} |->
                           CHOOSE f \in facts : k = <<f.child_table, f.parent_table>>]
          /\ nwrites = Cardinality(WideTables) + Cardinality(facts)
          /\ \E relationships \in {ListOf(facts)} :
                /\ fetched = [kind |-> "list", relationships |-> relationships]
                /\ graph = build_from_relationships(EmptyGraph, relationships)

FindJoinPathWide == FindJoinPathAbout(WideTables)

WideNext ==
    \/ FindJoinPathWide
    \/ ToolReturn

WideSpec == WideInit /\ [][WideNext]_vars

-----------------------------------------------------------------------------
(* What the properties below are stated with: the graph read as a set of   *)
(* undirected edges, and paths as node sequences, with no search.          *)

IsFindResult == res.op = "find_shortest_path"

ReturnedPath == IsFindResult /\ res.out.kind = "JoinPath"

\* u and v are joined by a stored edge, in either direction of the adjacency
Linked(g, u, v) == HasEdge(g, u, v) \/ HasEdge(g, v, u)

\* the node sequences of n edges from s to t along stored edges
WalksOf(g, s, t, n) ==
    {p \in [1..(n + 1) -> Nodes(g)] :
        /\ p[1] = s
        /\ p[n + 1] = t
        /\ \A i \in 1..n : Linked(g, p[i], p[i + 1])}

\* the hop counts for which some path from s to t exists; a shortest one
\* visits no node twice, so it has fewer edges than there are nodes
HopCounts(g, s, t) ==
    {n \in 0..(Cardinality(Nodes(g)) - 1) : WalksOf(g, s, t, n) # {}}

MinOf(S) == CHOOSE n \in S : \A m \in S : n <= m

\* a fact list without its malformed facts
RECURSIVE WellFormedOnly(_)
WellFormedOnly(fs) ==
    IF Len(fs) = 0 THEN << >>
    ELSE IF Malformed(Head(fs)) THEN WellFormedOnly(Tail(fs))
    ELSE <<Head(fs)>> \o WellFormedOnly(Tail(fs))

\* the edge data a fact is stored as
StoredAs(f, e) ==
    /\ e.parent = Upper(f.parent_table)
    /\ e.child = Upper(f.child_table)
    /\ e.parent_columns = f.parent_columns
    /\ e.child_columns = f.child_columns
    /\ e.constraint_name = f.constraint_name

\* "<lhs table>.<lhs column> = <rhs table>.<rhs column>"
Equality(lt, lc, rt, rc) == lt \o "." \o lc \o " = " \o rt \o "." \o rc

\* the stored parent on the left of every equality
ParentLeft(e) ==
    StrJoin(" AND ",
            [i \in 1..Len(Zip(e.parent_columns, e.child_columns)) |->
                Equality(e.parent, e.parent_columns[i], e.child, e.child_columns[i])])

\* the stored child on the left of every equality
ChildLeft(e) ==
    StrJoin(" AND ",
            [i \in 1..Len(Zip(e.parent_columns, e.child_columns)) |->
                Equality(e.child, e.child_columns[i], e.parent, e.parent_columns[i])])

-----------------------------------------------------------------------------
(* C1 *)

\* C1 as stated: every step of a returned path carries the ' AND '-joined
\* '<parent>.<pc> = <child>.<cc>' equalities of its edge, the stored parent on
\* the left whichever way the step crosses the edge.
C1_ParentAlwaysLeft ==
    ReturnedPath =>
        \A i \in DOMAIN res.out.steps :
            LET st == res.out.steps[i]
            IN  st.join_condition = ParentLeft(adj[st.from_table][st.to_table])

\* C1 as amended: the equalities are those of the edge's positionally paired
\* columns, joined by ' AND '; the table the step leaves is on the left: the
\* parent side first on a parent-to-child step, the child side first on a
\* child-to-parent step; an edge with no column pair gives '<from>.id = <to>.id'.
C1_JoinConditionFollowsTraversal ==
    ReturnedPath =>
        \A i \in DOMAIN res.out.steps :
            LET st == res.out.steps[i]
                e == adj[st.from_table][st.to_table]
            IN  st.join_condition =
                    IF Len(e.parent_columns) = 0 \/ Len(e.child_columns) = 0
                    THEN st.from_table \o ".id = " \o st.to_table \o ".id"
                    ELSE IF st.from_table = e.parent THEN ParentLeft(e)
                    ELSE ChildLeft(e)

\* the spec's Scenario 1, as the code answers it: both steps go child to parent
C1_Witness ==
    /\ ReturnedPath
    /\ res.source = "ORDER_ITEMS"
    /\ res.target = "CUSTOMERS"
    /\ Len(res.out.steps) = 2
    /\ res.out.steps[1].to_table = "ORDERS"
    /\ res.out.steps[1].join_condition = "ORDER_ITEMS.ORDER_ID = ORDERS.ID"
    /\ res.out.steps[2].join_condition = "ORDERS.CUSTOMER_ID = CUSTOMERS.ID"

-----------------------------------------------------------------------------
(* C2 *)

\* C2: a returned path's total_hops is the least number of edges of any path
\* between the two tables in the undirected graph.
C2_TotalHopsIsMinimum ==
    ReturnedPath =>
        LET hops == HopCounts(adj, Upper(res.source), Upper(res.target))
        IN  /\ res.out.total_hops \in hops
            /\ \A n \in hops : res.out.total_hops <= n

\* a one-hop answer between two tables that a three-hop route joins as well
C2_Witness ==
    /\ ReturnedPath
    /\ res.out.total_hops = 1
    /\ \E p \in WalksOf(adj, Upper(res.source), Upper(res.target), 3) :
            Cardinality({p[i] : i \in DOMAIN p}) = 4

-----------------------------------------------------------------------------
(* C3 *)

-----------------------------------------------------------------------------
(* C4 *)

\* C4 as stated: a query naming a table that is no node fails with NotFound
\* naming that table, unlike the no-path result and the empty list.
C4_NotFoundNamesTheTable ==
    /\ (IsFindResult /\ Upper(res.source) \notin Nodes(adj)) =>
            res.out = [kind |-> "NotFound", table |-> Upper(res.source)]
    /\ (IsFindResult /\ Upper(res.source) \in Nodes(adj)
                     /\ Upper(res.target) \notin Nodes(adj)) =>
            res.out = [kind |-> "NotFound", table |-> Upper(res.target)]
    /\ (res.op = "get_related_tables" /\ Upper(res.table_name) \notin Nodes(adj)) =>
            res.out # << >>

\* C4 as amended: a query naming a table that is no node does not fail:
\* find_shortest_path returns None, the value it returns when no path exists,
\* whichever of the two tables is missing, and get_related_tables returns the
\* empty list.
C4_AbsentTableGivesEmptyAnswer ==
    /\ (IsFindResult /\ (Upper(res.source) \notin Nodes(adj)
                         \/ Upper(res.target) \notin Nodes(adj))) =>
            res.out = NoneVal
    /\ (res.op = "get_related_tables" /\ Upper(res.table_name) \notin Nodes(adj)) =>
            res.out = << >>

\* the source is a node, the target is not, and the answer is None
C4_Witness ==
    /\ IsFindResult
    /\ Upper(res.source) \in Nodes(adj)
    /\ Upper(res.target) \notin Nodes(adj)
    /\ res.out = NoneVal

-----------------------------------------------------------------------------
(* C8 *)

MalformedEdge(e) ==
    \/ Len(e.parent_columns) # Len(e.child_columns)
    \/ Len(e.parent_columns) = 0
    \/ Len(e.child_columns) = 0

\* C8 as stated: add_relationship with column lists of different lengths, or
\* an empty one, fails with InvalidRelationship and leaves the graph as it
\* was, so that no stored edge has such lists.
C8_MalformedFactRejected ==
    /\ (res.op = "add_relationship" /\ Malformed(res.fact)) =>
            /\ res.out.kind = "InvalidRelationship"
            /\ adj = res.before
    /\ \A u \in Nodes(adj) : \A v \in Neighbors(adj, u) : ~MalformedEdge(adj[u][v])

\* C8 as amended: add_relationship does not check the column lists: called
\* with lists of different lengths, or an empty one, it returns normally,
\* both upper-cased tables are nodes afterwards and the edge between them
\* carries the two lists exactly as given.
C8_MalformedFactStored ==
    (res.op = "add_relationship" /\ Malformed(res.fact)) =>
        LET p == Upper(res.fact.parent_table)
            c == Upper(res.fact.child_table)
        IN  /\ res.out = NoneVal
            /\ {p, c} \subseteq Nodes(adj)
            /\ HasEdge(adj, p, c)
            /\ adj[p][c].parent_columns = res.fact.parent_columns
            /\ adj[p][c].child_columns = res.fact.child_columns

\* a call with two parent columns and one child column, on a graph that did
\* not hold the pair
C8_Witness ==
    /\ res.op = "add_relationship"
    /\ Len(res.fact.parent_columns) = 2
    /\ Len(res.fact.child_columns) = 1
    /\ ~HasEdge(res.before, "CUSTOMERS", "ORDERS")
    /\ Len(adj["ORDERS"]["CUSTOMERS"].parent_columns) = 2

-----------------------------------------------------------------------------
(* C9 *)

IsBuildResult == res.op = "build_from_relationships"

\* C9 as stated: the build leaves the graph that the list without its
\* malformed facts builds.
C9_MalformedFactsSkipped ==
    IsBuildResult =>
        adj = build_from_relationships(res.before, WellFormedOnly(res.relationships))

\* C9 as amended: the build does not abort and applies every fact of the
\* list in order, the malformed ones like the others: the nodes are the
\* upper-cased tables of all the facts, and each pair's edge is that of the
\* last fact of the whole list naming the pair.
C9_EveryFactApplied ==
    IsBuildResult =>
        LET fs == res.relationships
            lastOf(pr) == CHOOSE i \in DOMAIN fs :
                             /\ PairOf(fs[i]) = pr
                             /\ \A j \in DOMAIN fs : j > i => PairOf(fs[j]) # pr
        IN  /\ res.out = NoneVal
            /\ Nodes(adj) = UNION {PairOf(fs[i]) : i \in DOMAIN fs}
            /\ \A u \in Nodes(adj) : \A v \in Neighbors(adj, u) :
                    \E i \in DOMAIN fs : PairOf(fs[i]) = {u, v}
            /\ \A i \in DOMAIN fs :
                    LET f == fs[lastOf(PairOf(fs[i]))]
                    IN  /\ HasEdge(adj, Upper(f.parent_table), Upper(f.child_table))
                        /\ HasEdge(adj, Upper(f.child_table), Upper(f.parent_table))
                        /\ StoredAs(f, adj[Upper(f.parent_table)][Upper(f.child_table)])
                        /\ StoredAs(f, adj[Upper(f.child_table)][Upper(f.parent_table)])

\* a well-formed fact, then a malformed one, then a well-formed one, on three
\* different pairs: all three edges are there
C9_Witness ==
    /\ IsBuildResult
    /\ Len(res.relationships) = 3
    /\ ~Malformed(res.relationships[1])
    /\ Malformed(res.relationships[2])
    /\ ~Malformed(res.relationships[3])
    /\ Cardinality({PairOf(res.relationships[i]) : i \in 1..3}) = 3
    /\ \A i \in 1..3 :
          HasEdge(adj, Upper(res.relationships[i].parent_table),
                  Upper(res.relationships[i].child_table))

-----------------------------------------------------------------------------
(* C10 *)

\* C10: each unordered pair of canonical table names has at most one edge
\* (the adjacency holds the same data under both directions), the pairs with
\* an edge are those some call named, and the edge's parent, child, column
\* lists and constraint name are those of the latest call naming the pair,
\* in either orientation.
C10_LastFactWins ==
    /\ \A u \in Nodes(adj) : \A v \in Neighbors(adj, u) :
            /\ HasEdge(adj, v, u)
            /\ adj[v][u] = adj[u][v]
            /\ {u, v} \in DOMAIN last
            /\ StoredAs(last[{u, v}], adj[u][v])
    /\ \A pr \in DOMAIN last : \A u \in pr : \A v \in pr :
            (pr = {u, v}) => HasEdge(adj, u, v)

\* the pair ORDERS / ORDER_ITEMS named a second time, the other way round
C10_Witness ==
    /\ res.op = "add_relationship"
    /\ res.fact.parent_table = "ORDER_ITEMS"
    /\ res.fact.child_table = "ORDERS"
    /\ HasEdge(res.before, "ORDERS", "ORDER_ITEMS")
    /\ res.before["ORDERS"]["ORDER_ITEMS"].parent = "ORDERS"
    /\ adj["ORDERS"]["ORDER_ITEMS"].parent = "ORDER_ITEMS"
    /\ adj["ORDERS"]["ORDER_ITEMS"].constraint_name = "FK_ORD_LAST"

-----------------------------------------------------------------------------
(* What the enum properties are stated with: the iteration just made, the   *)
(* entry of the file it read, and the dict before and after it.             *)

\* the loop has just handled an entry that supplies at least one value
ManualStep ==
    /\ estep.op = "manual"
    /\ \E i \in DOMAIN estep.entry.values_list : estep.entry.values_list[i].isdict

\* the key the entry is about
ManualKey == Upper(estep.entry.table_name) \o "." \o Upper(estep.entry.column_name)

\* the codes and meanings the entry supplies, in its order
Supplied ==
    LET dicts == SelectSeq(estep.entry.values_list, LAMBDA v : v.isdict)
    IN  [i \in 1..Len(dicts) |-> [code |-> dicts[i].code, meaning |-> dicts[i].meaning]]

CodeSeq(values) == [i \in 1..Len(values) |-> values[i].code]

CodeSet(values) == {values[i].code : i \in DOMAIN values}

\* the meaning a value list gives a code (its last mention of it)
MeaningIn(values, code) ==
    LET at == {i \in DOMAIN values : values[i].code = code}
    IN  values[CHOOSE i \in at : \A j \in at : j <= i].meaning

\* the key held a domain of the given provenance before the iteration
HeldBefore(source) ==
    /\ ManualKey \in DOMAIN estep.before.map
    /\ estep.before.map[ManualKey].source = source

\* the iteration touched no other key and added none
OnlyKeyTouched ==
    /\ enums.keys = estep.before.keys
    /\ \A k \in DOMAIN estep.before.map :
          k # ManualKey => enums.map[k] = estep.before.map[k]

\* the key's domain kept its identity, provenance and codes; the entry's
\* meanings went to the codes it lists; meanings of the other codes are
\* given by rest(i)
AnnotatedWith(rest(_)) ==
    LET d0 == estep.before.map[ManualKey]
        d1 == enums.map[ManualKey]
    IN  /\ d1.table_name = d0.table_name
        /\ d1.column_name = d0.column_name
        /\ d1.source = d0.source
        /\ CodeSeq(d1.values) = CodeSeq(d0.values)
        /\ \A i \in DOMAIN d1.values :
              d1.values[i].meaning =
                  IF d1.values[i].code \in CodeSet(Supplied)
                  THEN MeaningIn(Supplied, d1.values[i].code)
                  ELSE rest(i)

Absent(i) == PyNone

AsBefore(i) == estep.before.map[ManualKey].values[i].meaning

-----------------------------------------------------------------------------
(* C5 *)

\* C5 as stated: merging a manual override into a derived domain keeps its
\* codes and provenance, gives the listed codes the manual meaning and leaves
\* every other meaning absent; manual codes the domain lacks are dropped.
C5_OtherMeaningsAbsent ==
    (ManualStep /\ HeldBefore("check_constraint")) => AnnotatedWith(Absent)

\* What the code does in C5's case: the codes, their order and the derived
\* provenance stay, the listed codes get the manual meaning, and every other
\* meaning stays as it was before the merge; it is absent only if no earlier
\* manual source for the same key had set it.
C5_ManualAnnotatesDerived ==
    (ManualStep /\ HeldBefore("check_constraint")) =>
        /\ AnnotatedWith(AsBefore)
        /\ OnlyKeyTouched
        /\ (\A i \in DOMAIN estep.before.map[ManualKey].values : AsBefore(i) = PyNone)
              => AnnotatedWith(Absent)

\* the spec's Scenario 3: ACTIVE is annotated, INACTIVE is not, PENDING is dropped
C5_Witness ==
    /\ ManualStep
    /\ HeldBefore("check_constraint")
    /\ estep.before.map[ManualKey].values =
          <<EnumValue("ACTIVE", PyNone), EnumValue("INACTIVE", PyNone)>>
    /\ estep.entry.values_list =
          <<Item("ACTIVE", "Account is active"), Item("PENDING", PyNone)>>
    /\ enums.map["ACCOUNTS.STATUS"].values =
          <<EnumValue("ACTIVE", "Account is active"), EnumValue("INACTIVE", PyNone)>>
    /\ enums.map["ACCOUNTS.STATUS"].source = "check_constraint"

-----------------------------------------------------------------------------
(* C6 *)

\* the domain made of the entry alone
ManualDomain ==
    [table_name |-> Upper(estep.entry.table_name),
     column_name |-> Upper(estep.entry.column_name),
     values |-> Supplied, source |-> "manual"]

\* C6 as stated: with no derived domain for the key, the manual override
\* yields a manual domain of exactly the supplied codes and meanings.
C6_NoDerivedGivesManual ==
    (ManualStep /\ ~HeldBefore("check_constraint")) =>
        /\ ManualKey \in DOMAIN enums.map
        /\ enums.map[ManualKey] = ManualDomain

\* What the code does in C6's case: only when the key holds no domain at
\* all, neither derived nor made by an earlier manual source, does the manual
\* override yield a manual domain of exactly the supplied codes and meanings.
C6_NewKeyGivesManual ==
    (ManualStep /\ ManualKey \notin DOMAIN estep.before.map) =>
        /\ ManualKey \in DOMAIN enums.map
        /\ enums.map[ManualKey] = ManualDomain
        /\ enums.keys = Append(estep.before.keys, ManualKey)
        /\ \A k \in DOMAIN estep.before.map : enums.map[k] = estep.before.map[k]

\* a new key, written in lower case in the file, with two values
C6_Witness ==
    /\ ManualStep
    /\ ManualKey \notin DOMAIN estep.before.map
    /\ estep.entry.column_name = "status"
    /\ estep.entry.values_list = <<Item("PENDING", PyNone), Item("ACTIVE", "Enabled")>>
    /\ enums.map["ACCOUNTS.STATUS"].source = "manual"
    /\ enums.map["ACCOUNTS.STATUS"].values =
          <<EnumValue("PENDING", PyNone), EnumValue("ACTIVE", "Enabled")>>

-----------------------------------------------------------------------------
(* C7 *)

\* C7 as stated: of two manual sources for one key, the later one is the
\* resulting domain, codes and meanings.
C7_LaterManualWins ==
    (ManualStep /\ HeldBefore("manual")) => enums.map[ManualKey] = ManualDomain

\* What the code does in C7's case: the earlier source stays, with its codes
\* and their order; the later one goes through the branch written for CHECK
\* domains and only annotates the codes both list; its other codes are lost.
C7_EarlierManualKept ==
    (ManualStep /\ HeldBefore("manual")) =>
        /\ AnnotatedWith(AsBefore)
        /\ enums.map[ManualKey].source = "manual"
        /\ OnlyKeyTouched

\* the later source renames ACTIVE's meaning and brings PENDING, which is dropped
C7_Witness ==
    /\ ManualStep
    /\ HeldBefore("manual")
    /\ estep.before.map[ManualKey].values = <<EnumValue("ACTIVE", "Account is active")>>
    /\ estep.entry.values_list = <<Item("ACTIVE", "Enabled"), Item("PENDING", PyNone)>>
    /\ enums.map[ManualKey].values = <<EnumValue("ACTIVE", "Enabled")>>

-----------------------------------------------------------------------------
(* C11 *)

IsRelatedResult == res.op = "get_related_tables"

\* the least number of edges of a path from s to t (t reachable from s)
HopDistance(g, s, t) == MinOf(HopCounts(g, s, t))

\* C11: for a table in the graph, get_related_tables returns exactly the
\* other tables whose shortest hop distance d is between 1 and max_hops, each
\* once and paired with d, in ascending order of (distance, table name).
C11_RelatedTablesWithinHops ==
    (IsRelatedResult /\ Upper(res.table_name) \in Nodes(adj)) =>
        LET s == Upper(res.table_name)
            out == res.out
            expected == {t \in Nodes(adj) \ {s} :
                            /\ HopCounts(adj, s, t) # {}
                            /\ HopDistance(adj, s, t) >= 1
                            /\ HopDistance(adj, s, t) <= res.max_hops}
        IN  /\ {out[i].table_name : i \in DOMAIN out} = expected
            /\ Len(out) = Cardinality(expected)
            /\ \A i \in DOMAIN out :
                  out[i].distance = HopDistance(adj, s, out[i].table_name)
            /\ \A i, j \in DOMAIN out :
                  i < j =>
                      \/ out[i].distance < out[j].distance
                      \/ /\ out[i].distance = out[j].distance
                         /\ StrRank(out[i].table_name) < StrRank(out[j].table_name)

\* the spec's Scenario 4, with a table two hops away left out by max_hops = 1
C11_Witness ==
    /\ IsRelatedResult
    /\ res.table_name = "ORDERS"
    /\ res.max_hops = 1
    /\ res.out = <<[table_name |-> "CUSTOMERS", distance |-> 1],
                   [table_name |-> "ORDER_ITEMS", distance |-> 1]>>
    /\ "PRODUCTS" \in Nodes(adj)
    /\ HopCounts(adj, "ORDERS", "PRODUCTS") # {}
    /\ HopDistance(adj, "ORDERS", "PRODUCTS") = 2

-----------------------------------------------------------------------------
(* C12 *)

\* C12: for a table X of the graph and any max_hops >= 0, the path from X to
\* X is returned, with no step and total_hops = 0, also when X has a
\* self-referencing relationship.
C12_SameTableZeroSteps ==
    (IsFindResult /\ Upper(res.source) = Upper(res.target)
                  /\ Upper(res.source) \in Nodes(adj)) =>
        /\ res.out.kind = "JoinPath"
        /\ res.out.source = Upper(res.source)
        /\ res.out.target = Upper(res.source)
        /\ res.out.steps = << >>
        /\ res.out.total_hops = 0

\* CUSTOMERS refers to itself and is asked for with max_hops = 0
C12_Witness ==
    /\ IsFindResult
    /\ res.source = "CUSTOMERS"
    /\ res.target = "CUSTOMERS"
    /\ res.max_hops = 0
    /\ HasEdge(adj, "CUSTOMERS", "CUSTOMERS")
    /\ res.out.kind = "JoinPath"
    /\ res.out.total_hops = 0

-----------------------------------------------------------------------------
(* C13 *)

\* the upper-cased table names a fact list refers to
RECURSIVE CanonicalNames(_)
CanonicalNames(fs) ==
    IF Len(fs) = 0 THEN {}
    ELSE {Upper(Head(fs).parent_table), Upper(Head(fs).child_table)}
            \cup CanonicalNames(Tail(fs))

\* C13: after build_from_relationships(F) the graph has as many nodes as F
\* has distinct upper-cased table names, parents and children together; and
\* get_stats reports as many tables as the facts applied so far name.
C13_NodeCountIsDistinctNames ==
    /\ IsBuildResult =>
          /\ Nodes(adj) = CanonicalNames(res.relationships)
          /\ get_stats(adj).tables = Cardinality(CanonicalNames(res.relationships))
    /\ res.op = "get_stats" =>
          res.out.tables = Cardinality(UNION (DOMAIN last))

\* three facts naming one pair of tables in two cases: two nodes
C13_Witness ==
    /\ IsBuildResult
    /\ Len(res.relationships) = 3
    /\ \E i \in DOMAIN res.relationships : res.relationships[i].parent_table = "orders"
    /\ \E i \in DOMAIN res.relationships : res.relationships[i].parent_table = "ORDERS"
    /\ get_stats(adj).tables = 2
    /\ get_stats(adj).relationships = 1

-----------------------------------------------------------------------------
(* C14 *)

IsJoinPathResult == tres.op = "find_join_path"

\* the graphs a wholesale rebuild from the cache's current relationships gives
RebuiltGraphs ==
    {build_from_relationships(EmptyGraph, relationships) :
        relationships \in get_all_relationships(cache_relationships)}

\* C14: every find_join_path query is answered against a graph rebuilt from
\* the relationships the cache holds at the time of the query, never against
\* a graph built from an earlier fact set.
C14_AnsweredFromCurrentCache ==
    IsJoinPathResult =>
        /\ graph \in RebuiltGraphs
        /\ tres.out \in UNION {find_join_path(g, cache_tables, tres.source_table,
                                              tres.target_table, tres.max_hops) :
                               g \in RebuiltGraphs}

\* What the code does in C14's case: _graph is built by the first query and
\* is the graph of every later one, whatever the cache has become.
C14_GraphBuiltOnce ==
    [][(graph # NoneVal /\ tres.op # "_get_graph") => graph' = graph]_vars

\* both tables and their relationship are cached, and the query finds no
\* path: its graph was built before the relationship was written
C14_Witness ==
    /\ IsJoinPathResult
    /\ tres.source_table = "orders"
    /\ tres.target_table = "ORDER_ITEMS"
    /\ tres.max_hops = 2
    /\ "ORDER_ITEMS->ORDERS" \in DOMAIN cache_relationships
    /\ tres.out.success = FALSE
    /\ "message" \in DOMAIN tres.out
    /\ graph = EmptyGraph

-----------------------------------------------------------------------------
(* What the properties of constraint parsing are stated with: the SQL      *)
(* reading of a value list, apart from the regular expressions.            *)

IsDerivedStep == estep.op = "derived"

\* where the literal opened just before position i closes: at the first
\* quote from i on that is not doubled (0 if there is none)
RECURSIVE LiteralEnd(_, _)
LiteralEnd(tokens, i) ==
    IF i > Len(tokens) THEN 0
    ELSE IF tokens[i] # Q THEN LiteralEnd(tokens, i + 1)
    ELSE IF i + 1 <= Len(tokens) /\ tokens[i + 1] = Q THEN LiteralEnd(tokens, i + 2)
    ELSE i

\* the value of a literal's body: a doubled quote stands for one quote
RECURSIVE LiteralValue(_)
LiteralValue(body) ==
    IF Len(body) = 0 THEN ""
    ELSE IF Len(body) >= 2 /\ body[1] = Q /\ body[2] = Q
         THEN "'" \o LiteralValue(SubSeq(body, 3, Len(body)))
    ELSE Head(body).s \o LiteralValue(Tail(body))

\* the quoted string literals of a value list, in order of appearance
RECURSIVE StringLiterals(_)
StringLiterals(tokens) ==
    LET quotes == {i \in DOMAIN tokens : tokens[i] = Q}
        open == CHOOSE i \in quotes : \A j \in quotes : i <= j
        close == LiteralEnd(tokens, open + 1)
    IN  IF quotes = {} THEN << >>
        ELSE IF close = 0 THEN << >>
        ELSE <<LiteralValue(SubSeq(tokens, open + 1, close - 1))>>
                \o StringLiterals(SubSeq(tokens, close + 1, Len(tokens)))

\* the bare unsigned integer tokens of a value list, in order of appearance
IntegerTokens(tokens) ==
    LET at == {i \in DOMAIN tokens : IsNumber(tokens[i])}
        nth(k) == CHOOSE i \in at : Cardinality({j \in at : j <= i}) = k
    IN  [k \in 1..Cardinality(at) |-> tokens[nth(k)].s]

\* the positions of a text where the column-IN-list pattern occurs
Occurrences(text) == {i \in 1..Len(text) : match_at(text, i) # NoneVal}

\* the value list of the leftmost occurrence
FirstList(text) ==
    LET m == match_at(text, CHOOSE i \in Occurrences(text) :
                                \A j \in Occurrences(text) : i <= j)
    IN  SubSeq(text, m.open + 1, m.close - 1)

\* the column identifier of the leftmost occurrence
FirstColumn(text) ==
    text[match_at(text, CHOOSE i \in Occurrences(text) :
                            \A j \in Occurrences(text) : i <= j).word].s

\* the codes the spec gives a matching text: its quoted string literals if
\* it has one, else its integer tokens
CodesOfList(list) ==
    IF Len(StringLiterals(list)) > 0 THEN StringLiterals(list)
    ELSE IntegerTokens(list)

\* some text of the cursor has a literal with an escaped (doubled) quote
HasEscapedQuote(cursor) ==
    \E r \in DOMAIN cursor :
        \E i \in DOMAIN cursor[r].search_condition :
            /\ i + 1 <= Len(cursor[r].search_condition)
            /\ cursor[r].search_condition[i] = Q
            /\ cursor[r].search_condition[i + 1] = Q

\* the rows of a cursor that yield a domain: their text has an occurrence
\* and the leftmost one has codes
Yielding(cursor, codes(_)) ==
    SelectSeq(cursor, LAMBDA row :
        /\ Occurrences(row.search_condition) # {}
        /\ Len(codes(FirstList(row.search_condition))) > 0)

\* one derived domain per yielding row, in the order of the rows
DomainsOf(cursor, codes(_)) ==
    LET rows == Yielding(cursor, codes)
    IN  [r \in 1..Len(rows) |->
            [table_name |-> rows[r].table_name,
             column_name |-> FirstColumn(rows[r].search_condition),
             values |-> LET cs == codes(FirstList(rows[r].search_condition))
                        IN  [i \in 1..Len(cs) |-> [code |-> cs[i], meaning |-> PyNone]],
             source |-> "check_constraint"]]

-----------------------------------------------------------------------------
(* C15 *)

\* C15: for a text that matches the pattern, the derived domain's codes are,
\* in order, the quoted string literals of the matched list if it has one,
\* else its bare unsigned integer tokens; no value has a meaning and the
\* provenance is check_constraint.
C15_CodesAreLiteralsElseIntegers ==
    IsDerivedStep => estep.derived = DomainsOf(estep.cursor, CodesOfList)

\* What the code does in C15's case: the claim holds of every text that has
\* no escaped quote.
C15_HoldsWithoutEscapedQuote ==
    (IsDerivedStep /\ ~HasEscapedQuote(estep.cursor)) =>
        estep.derived = DomainsOf(estep.cursor, CodesOfList)

\* a list with a literal and a number gives the literal alone; a list of
\* numbers gives the numbers
C15_Witness ==
    /\ IsDerivedStep
    /\ Len(estep.cursor) = 2
    /\ TextOf(estep.cursor[1].search_condition) = "KIND > 0 OR STATUS IN ('ACTIVE', 2)"
    /\ TextOf(estep.cursor[2].search_condition) = "KIND IN (1, 2)"
    /\ Len(estep.derived) = 2
    /\ estep.derived[1].values = <<EnumValue("ACTIVE", PyNone)>>
    /\ estep.derived[2].values = <<EnumValue("1", PyNone), EnumValue("2", PyNone)>>
    /\ estep.derived[2].source = "check_constraint"

-----------------------------------------------------------------------------
(* C16 *)

\* the codes as the regular expressions read them: the stretches between the
\* 1st and 2nd, 3rd and 4th, ... quote of the list if it has two quotes, else
\* its integer tokens
QuotePairs(list) ==
    LET quotes == {i \in DOMAIN list : list[i] = Q}
        nth(k) == CHOOSE i \in quotes : Cardinality({j \in quotes : j <= i}) = k
    IN  [k \in 1..(Cardinality(quotes) \div 2) |->
            TextOf(SubSeq(list, nth(2 * k - 1) + 1, nth(2 * k) - 1))]

ValuesOfList(list) ==
    IF Len(QuotePairs(list)) > 0 THEN QuotePairs(list) ELSE IntegerTokens(list)

\* C16: each constraint text gives at most one domain, that of the leftmost
\* occurrence of the pattern; a text with no occurrence, or whose leftmost
\* occurrence has no value, gives none, no error is raised, and the texts
\* after it are processed all the same.
C16_OneDomainPerTextOrSkipped ==
    IsDerivedStep =>
        /\ estep.derived = DomainsOf(estep.cursor, ValuesOfList)
        /\ Len(estep.derived) <= Len(estep.cursor)
        /\ epc = "manual"

\* a text with no occurrence, then one whose second occurrence is left out
C16_Witness ==
    /\ IsDerivedStep
    /\ Len(estep.cursor) = 2
    /\ TextOf(estep.cursor[1].search_condition) = "\"STATUS\" IS NOT NULL"
    /\ TextOf(estep.cursor[2].search_condition) = "STATUS IN ('ACTIVE') AND KIND IN (1, 2)"
    /\ Len(estep.derived) = 1
    /\ estep.derived[1].column_name = "STATUS"
    /\ estep.derived[1].values = <<EnumValue("ACTIVE", PyNone)>>

\* a text whose leftmost occurrence has no value gives nothing, whatever
\* follows in it
C16_WitnessNoValues ==
    /\ IsDerivedStep
    /\ Len(estep.cursor) = 1
    /\ TextOf(estep.cursor[1].search_condition) = "KIND IN (LO, HI) OR STATUS IN ('ACTIVE')"
    /\ estep.derived = << >>

-----------------------------------------------------------------------------
(* C17 *)

IsEnumsReturned == estep.op = "return"

\* C17: every domain extract_all returns has pairwise distinct codes.
C17_CodesDistinct ==
    IsEnumsReturned =>
        \A d \in DOMAIN estep.out :
            \A i, j \in DOMAIN estep.out[d].values :
                estep.out[d].values[i].code = estep.out[d].values[j].code => i = j

\* the constraint STATUS IN ('ACTIVE', 'ACTIVE') comes back as a domain that
\* lists ACTIVE twice
C17_Witness ==
    /\ IsEnumsReturned
    /\ Len(estep.out) = 1
    /\ estep.out[1].source = "check_constraint"
    /\ estep.out[1].values = <<EnumValue("ACTIVE", PyNone), EnumValue("ACTIVE", PyNone)>>

-----------------------------------------------------------------------------
(* C18 *)

\* the override of this step has been applied to its key before: the key
\* holds the manual domain made of it, or a derived domain whose listed
\* codes already carry its meanings
AppliedBefore ==
    /\ ManualKey \in DOMAIN estep.before.map
    /\ \/ estep.before.map[ManualKey] = ManualDomain
       \/ /\ estep.before.map[ManualKey].source = "check_constraint"
          /\ \A i \in DOMAIN estep.before.map[ManualKey].values :
                estep.before.map[ManualKey].values[i].code \in CodeSet(Supplied) =>
                    AsBefore(i) = MeaningIn(Supplied,
                                            estep.before.map[ManualKey].values[i].code)

\* C18: applying a manual override a second time leaves the domain as the
\* first application made it (codes, order, meanings, provenance), with or
\* without a derived domain for the key.
C18_SecondMergeChangesNothing ==
    (ManualStep /\ AppliedBefore) => enums = estep.before

\* What the code does in C18's case: the claim holds of every override that
\* lists no code twice.
C18_HoldsForDistinctCodes ==
    (ManualStep /\ AppliedBefore
        /\ \A i, j \in DOMAIN Supplied : Supplied[i].code = Supplied[j].code => i = j)
    => enums = estep.before

\* the same two values under the keys STATUS and status of one table: the
\* second application meets the domain the first one made
C18_Witness ==
    /\ ManualStep
    /\ Len(used) = 2
    /\ used[1] # used[2]
    /\ ManualKey \in DOMAIN estep.before.map
    /\ estep.before.map[ManualKey] = ManualDomain
    /\ Supplied = <<EnumValue("PENDING", PyNone), EnumValue("ACTIVE", "Enabled")>>
    /\ enums = estep.before


-----------------------------------------------------------------------------
(* C19 *)

IsEnumValuesResult == tres.op = "get_enum_values"

\* the key a domain for (table, column) is stored under
StoredKey(table_name, column_name) == Upper(table_name) \o "." \o Upper(column_name)

\* the kind of a failure of get_enum_values, by the fields it carries
FailureKind(out) ==
    IF "available_columns" \in DOMAIN out THEN "column not found"
    ELSE IF "error" \in DOMAIN out THEN "table not found"
    ELSE IF "message" \in DOMAIN out THEN "no enum defined"
    ELSE "other"

\* the table's row lists a column of that name, whatever the case
HasColumn(table_name, column_name) ==
    \E i \in DOMAIN cache_tables[Upper(table_name)].columns :
        Upper(cache_tables[Upper(table_name)].columns[i].name) = Upper(column_name)

\* C19: get_enum_values(table, column) succeeds exactly when a domain is
\* stored under the upper-cased (table, column) key, and then returns that
\* domain's values and provenance unchanged; otherwise it returns a failure
\* that carries no values, whose kind is the first that applies of: table not
\* found, column not found in the table, no enum defined for the column.
C19_EnumValuesIffStored ==
    IsEnumValuesResult =>
        LET key == StoredKey(tres.table_name, tres.column_name)
            out == tres.out
        IN  IF key \in DOMAIN cache_enums
            THEN /\ out.success
                 /\ out.values = cache_enums[key].values
                 /\ out.source = cache_enums[key].source
                 /\ out.table_name = Upper(tres.table_name)
                 /\ out.column_name = Upper(tres.column_name)
            ELSE /\ ~out.success
                 /\ "values" \notin DOMAIN out
                 /\ "source" \notin DOMAIN out
                 /\ FailureKind(out) =
                        IF Upper(tres.table_name) \notin DOMAIN cache_tables
                        THEN "table not found"
                        ELSE IF ~HasColumn(tres.table_name, tres.column_name)
                        THEN "column not found"
                        ELSE "no enum defined"

\* a domain stored for PRODUCTS.STATUS, a table the cache has no row of, is
\* returned
C19_Witness ==
    /\ IsEnumValuesResult
    /\ tres.table_name = "PRODUCTS"
    /\ tres.column_name = "status"
    /\ "PRODUCTS" \notin DOMAIN cache_tables
    /\ tres.out.success
    /\ tres.out.values = <<EnumValue("NEW", PyNone)>>
    /\ tres.out.source = "check_constraint"

\* the three failures: no row for the table; a row without the column; a row
\* with the column, written in another case, and no domain
C19_WitnessTableNotFound ==
    /\ IsEnumValuesResult
    /\ tres.table_name = "CUSTOMERS"
    /\ FailureKind(tres.out) = "table not found"

C19_WitnessColumnNotFound ==
    /\ IsEnumValuesResult
    /\ tres.table_name = "accounts"
    /\ tres.column_name = "KIND"
    /\ FailureKind(tres.out) = "column not found"
    /\ tres.out.available_columns = <<"ID", "status">>

C19_WitnessNoEnum ==
    /\ IsEnumValuesResult
    /\ tres.table_name = "ACCOUNTS"
    /\ tres.column_name = "STATUS"
    /\ FailureKind(tres.out) = "no enum defined"
    /\ tres.out.column_type = "VARCHAR2"


-----------------------------------------------------------------------------
(* C20 *)

\* the tables strictly between the ends of the shortest paths from s to t
\* (t reachable from s): one fewer than the edges, none for s = t
IntermediateTables(g, s, t) ==
    IF HopDistance(g, s, t) = 0 THEN 0 ELSE HopDistance(g, s, t) - 1

\* find_shortest_path's result for two connected tables of the graph
IsConnectedFindResult ==
    /\ IsFindResult
    /\ Upper(res.source) \in Nodes(adj)
    /\ Upper(res.target) \in Nodes(adj)
    /\ HopCounts(adj, Upper(res.source), Upper(res.target)) # {}

\* C20: max_hops is the maximum number of intermediate tables:
\* find_shortest_path returns a path whenever one exists between source and
\* target whose number of intermediate tables is at most max_hops.
C20_MaxHopsCountsIntermediateTables ==
    (IsConnectedFindResult
        /\ IntermediateTables(adj, Upper(res.source), Upper(res.target)) <= res.max_hops)
    => res.out.kind = "JoinPath"

\* What the code does in C20's case: max_hops bounds the steps of the path,
\* which are one more than its intermediate tables.
C20_MaxHopsCountsSteps ==
    IsConnectedFindResult =>
        (res.out.kind = "JoinPath" <=>
            HopDistance(adj, Upper(res.source), Upper(res.target)) <= res.max_hops)

\* ORDER_ITEMS - ORDERS - CUSTOMERS has one intermediate table and is asked
\* for with max_hops = 1
C20_Witness ==
    /\ IsConnectedFindResult
    /\ res.source = "ORDER_ITEMS"
    /\ res.target = "CUSTOMERS"
    /\ res.max_hops = 1
    /\ IntermediateTables(adj, "ORDER_ITEMS", "CUSTOMERS") = 1
    /\ res.out = NoneVal


-----------------------------------------------------------------------------
(* C21 *)

\* the tables a list of steps visits, in order
TablesVisited(steps) ==
    IF Len(steps) = 0 THEN << >>
    ELSE <<steps[1].from_table>> \o [i \in 1..Len(steps) |-> steps[i].to_table]

\* C21: every path find_shortest_path returns is a well-formed chain:
\* total_hops is the number of steps, the steps are numbered 1..n in order,
\* the first starts at the upper-cased source, each ends where the next
\* starts, the last ends at the upper-cased target, every step crosses an
\* edge of the graph and carries its constraint identifier, and no table is
\* visited twice.
C21_PathIsWellFormedChain ==
    (IsFindResult /\ res.out.kind = "JoinPath") =>
        LET steps == res.out.steps
            n == Len(steps)
            visited == TablesVisited(steps)
        IN  /\ res.out.total_hops = n
            /\ \A i \in 1..n : steps[i].step_number = i
            /\ n > 0 => steps[1].from_table = Upper(res.source)
            /\ \A i \in 1..(n - 1) : steps[i].to_table = steps[i + 1].from_table
            /\ n > 0 => steps[n].to_table = Upper(res.target)
            /\ n = 0 => Upper(res.source) = Upper(res.target)
            /\ \A i \in 1..n :
                  /\ HasEdge(adj, steps[i].from_table, steps[i].to_table)
                  /\ steps[i].constraint_name =
                         adj[steps[i].from_table][steps[i].to_table].constraint_name
            /\ \A i, j \in DOMAIN visited : visited[i] = visited[j] => i = j

\* a path of three steps, asked for in lower case, in a graph that also holds
\* a self-referencing relationship
C21_Witness ==
    /\ IsFindResult
    /\ res.out.kind = "JoinPath"
    /\ res.source = "orders"
    /\ res.out.total_hops = 3
    /\ TablesVisited(res.out.steps)[1] = "ORDERS"
    /\ \E t \in Nodes(adj) : HasEdge(adj, t, t)


-----------------------------------------------------------------------------
(* C22 *)

QueryOps == {"find_shortest_path", "get_related_tables", "get_direct_relationship"}

\* the edges of a graph, as ordered pairs of nodes
Edges(g) == {e \in Nodes(g) \X Nodes(g) : HasEdge(g, e[1], e[2])}

\* C22: find_shortest_path, get_related_tables and get_direct_relationship,
\* whatever their arguments, leave the node set, the edge set and every
\* edge's payload as they were.
C22_QueriesLeaveGraphUnchanged ==
    [][(res = Idle /\ res'.op \in QueryOps) =>
          /\ Nodes(adj') = Nodes(adj)
          /\ Edges(adj') = Edges(adj)
          /\ \A e \in Edges(adj) : adj'[e[1]][e[2]] = adj[e[1]][e[2]]]_vars

\* a query about a table the graph lacks, made of a graph that has edges
C22_Witness ==
    /\ res.op \in QueryOps
    /\ Edges(adj) # {}
    /\ \/ /\ res.op = "get_related_tables"
          /\ Upper(res.table_name) \notin Nodes(adj)
          /\ res.out = << >>
       \/ /\ res.op = "find_shortest_path"
          /\ Upper(res.target) \notin Nodes(adj)
          /\ res.out = NoneVal
       \/ /\ res.op = "get_direct_relationship"
          /\ Upper(res.table_a) \notin Nodes(adj)
          /\ res.out = NoneVal


-----------------------------------------------------------------------------
(* C23 *)

\* _get_graph has read the relationships and has not applied them all
BuildUnderWay ==
    /\ tres.op = "_get_graph"
    /\ tres.pc = "new" \/ tres.applied < Len(tres.relationships)

\* _graph holds every relationship _get_graph read
FullyBuilt ==
    /\ fetched # NoneVal
    /\ graph = build_from_relationships(EmptyGraph, fetched.relationships)

C23_WitnessRaised ==
    /\ tres.op = "raised"
    /\ graph = NoneVal
    /\ cache_relationships # EmptyDict


-----------------------------------------------------------------------------
(* C24 *)

\* both tables of the query have a row in the cache
BothCached ==
    /\ Upper(tres.source_table) \in DOMAIN cache_tables
    /\ Upper(tres.target_table) \in DOMAIN cache_tables

\* _graph has no path for the query
NoPathFound ==
    find_shortest_path(graph, tres.source_table, tres.target_table, tres.max_hops)
        = {NoneVal}

\* the tables of _graph one or two edges away from a table, and how far
Within2(e) ==
    {t \in Nodes(graph) \ {e} :
        \/ Linked(graph, e, t)
        \/ \E u \in Nodes(graph) : Linked(graph, e, u) /\ Linked(graph, u, t)}

Distance2(e, t) == IF Linked(graph, e, t) THEN 1 ELSE 2

\* table a comes before table b in the neighbourhood of e
Nearer(e, a, b) ==
    \/ Distance2(e, a) < Distance2(e, b)
    \/ Distance2(e, a) = Distance2(e, b) /\ StrRank(a) < StrRank(b)

\* a list of names is the first five of the neighbourhood of e
FirstFiveOf(e, names) ==
    LET hood == IF e \in Nodes(graph) THEN Within2(e) ELSE {}
        listed == {names[i] : i \in DOMAIN names}
    IN  /\ Len(names) <= 5
        /\ Len(names) = IF Cardinality(hood) < 5 THEN Cardinality(hood) ELSE 5
        /\ listed \subseteq hood
        /\ \A i, j \in DOMAIN names : i < j => Nearer(e, names[i], names[j])
        /\ \A t \in hood \ listed : \A i \in DOMAIN names : Nearer(e, names[i], t)

\* C24: when find_join_path finds no path between two tables that exist, it
\* returns a failure carrying source_related_tables and
\* target_related_tables: for each endpoint at most five table names, each
\* within two hops of it and different from it, the first five of its
\* neighbourhood in ascending (distance, name) order.
C24_NoPathCarriesNeighbourhoods ==
    (IsJoinPathResult /\ BothCached /\ NoPathFound) =>
        /\ tres.out.success = FALSE
        /\ {"source_related_tables", "target_related_tables"} \subseteq DOMAIN tres.out
        /\ FirstFiveOf(Upper(tres.source_table), tres.out.source_related_tables)
        /\ FirstFiveOf(Upper(tres.target_table), tres.out.target_related_tables)

\* CUSTOMERS has seven tables within two hops, ORDER_ITEMS is two hops away
\* and max_hops is 1: five names are listed, the two tables at distance 2
\* are left out
C24_Witness ==
    /\ IsJoinPathResult
    /\ tres.source_table = "CUSTOMERS"
    /\ tres.target_table = "ORDER_ITEMS"
    /\ tres.max_hops = 1
    /\ NoPathFound
    /\ Cardinality(Within2("CUSTOMERS")) = 7
    /\ tres.out.source_related_tables =
           <<"ADDRESSES", "CONTACTS", "INVOICES", "ORDERS", "TICKETS">>
    /\ tres.out.target_related_tables = <<"ORDERS", "PRODUCTS", "CUSTOMERS">>


-----------------------------------------------------------------------------
(* C25 *)

NotFoundError(table_name) ==
    [success |-> FALSE, error |-> "Table '" \o table_name \o "' not found."]

IsCached(table_name) == Upper(table_name) \in DOMAIN cache_tables

\* no relationship of the cache has the table as parent or child
InNoRelationship(table_name) ==
    \A id \in DOMAIN cache_relationships :
        /\ cache_relationships[id].parent_table # Upper(table_name)
        /\ cache_relationships[id].child_table # Upper(table_name)

IsNoPathResult ==
    /\ tres.out.success = FALSE
    /\ "message" \in DOMAIN tres.out
    /\ "source_related_tables" \in DOMAIN tres.out

\* C25: find_join_path decides table existence against the table cache: the
\* 'not found' error, for the source first, then the target, is returned
\* exactly when that table has no row in the table cache; and a cached table
\* that occurs in no relationship gives the no-path result with an empty
\* list of related tables, also when it is both source and target.
C25_ExistenceDecidedByTableCache ==
    IsJoinPathResult =>
        /\ ~IsCached(tres.source_table) =>
              tres.out = NotFoundError(tres.source_table)
        /\ (IsCached(tres.source_table) /\ ~IsCached(tres.target_table)) =>
              tres.out = NotFoundError(tres.target_table)
        /\ (IsCached(tres.source_table) /\ IsCached(tres.target_table)) =>
              /\ "error" \notin DOMAIN tres.out
              /\ InNoRelationship(tres.source_table) =>
                    /\ IsNoPathResult
                    /\ tres.out.source_related_tables = << >>
              /\ InNoRelationship(tres.target_table) =>
                    /\ IsNoPathResult
                    /\ tres.out.target_related_tables = << >>

\* What the code does in C25's case: the no-path result with an empty list
\* is that of a cached table that is no node of _graph, whatever the
\* relationships of the cache are.
C25_HoldsOfTablesOutsideGraph ==
    IsJoinPathResult =>
        /\ ~IsCached(tres.source_table) =>
              tres.out = NotFoundError(tres.source_table)
        /\ (IsCached(tres.source_table) /\ ~IsCached(tres.target_table)) =>
              tres.out = NotFoundError(tres.target_table)
        /\ (IsCached(tres.source_table) /\ IsCached(tres.target_table)) =>
              /\ "error" \notin DOMAIN tres.out
              /\ Upper(tres.source_table) \notin Nodes(graph) =>
                    /\ IsNoPathResult
                    /\ tres.out.source_related_tables = << >>
              /\ Upper(tres.target_table) \notin Nodes(graph) =>
                    /\ IsNoPathResult
                    /\ tres.out.target_related_tables = << >>

\* ORDERS is cached and the cache holds no relationship, and the path from
\* ORDERS to ORDERS is found: _graph was built before clear_all
C25_Witness ==
    /\ IsJoinPathResult
    /\ tres.source_table = "orders"
    /\ tres.target_table = "orders"
    /\ IsCached("orders")
    /\ cache_relationships = EmptyDict
    /\ tres.out.success
    /\ tres.out.total_hops = 0

\* accounts is cached and is in no relationship and no node: the no-path
\* result with empty lists, for accounts as source and target
C25_WitnessIsolated ==
    /\ IsJoinPathResult
    /\ tres.source_table = "accounts"
    /\ tres.target_table = "accounts"
    /\ IsCached("accounts")
    /\ cache_relationships # EmptyDict
    /\ IsNoPathResult
    /\ tres.out.source_related_tables = << >>
    /\ tres.out.target_related_tables = << >>


-----------------------------------------------------------------------------
(* C26 *)

IsLookupResult == estep.op = "get_enum_for_column"

\* the domains of the returned list that bear the names the lookup is for
AskedFor ==
    {i \in DOMAIN estep.all_enums :
        /\ estep.all_enums[i].table_name = estep.table_name
        /\ estep.all_enums[i].column_name = estep.column_name}

\* C26: for every domain D that extract_all returns,
\* get_enum_for_column(D.table_name, D.column_name) returns a domain with
\* D's key, codes and meanings, whatever the letter case of the column in the
\* constraint text or of the names in the manual overrides.
C26_LookupFindsReturnedDomain ==
    IsLookupResult =>
        \A i \in AskedFor :
            /\ estep.out # NoneVal
            /\ KeyOf(estep.out) = KeyOf(estep.all_enums[i])
            /\ estep.out.values = estep.all_enums[i].values

\* What the code does in C26's case: the domain is found when its column
\* name is in upper case.
C26_HoldsForUpperCaseColumns ==
    IsLookupResult =>
        \A i \in AskedFor :
            estep.column_name = Upper(estep.column_name) =>
                /\ estep.out # NoneVal
                /\ KeyOf(estep.out) = KeyOf(estep.all_enums[i])
                /\ estep.out.values = estep.all_enums[i].values

\* the constraint  status in('PENDING', 'ACTIVE')  gives the domain
\* ACCOUNTS.status, and the lookup of ACCOUNTS.status finds nothing
C26_Witness ==
    /\ IsLookupResult
    /\ estep.table_name = "ACCOUNTS"
    /\ estep.column_name = "status"
    /\ AskedFor # {}
    /\ estep.out = NoneVal

\* a manual override written accounts.status is returned as ACCOUNTS.STATUS
\* and found under that name
C26_WitnessFound ==
    /\ IsLookupResult
    /\ estep.table_name = "ACCOUNTS"
    /\ estep.column_name = "STATUS"
    /\ used = << <<"accounts", "status">> >>
    /\ AskedFor # {}
    /\ estep.out # NoneVal
    /\ estep.out.source = "manual"


-----------------------------------------------------------------------------
(* C27 *)

IsJoinPatternResult == tres # Idle /\ tres.op = "get_join_pattern"

\* what get_join_pattern returns for the same two tables in the other order;
\* the cache is the one the call read, the ingest script writing between
\* calls only
OtherOrder ==
    get_join_pattern(cache_relationships, cache_tables, tres.table_b, tres.table_a)

\* two results report the same relationship, or both report none
SameRelationship(x, y) ==
    IF x.success /\ y.success
    THEN /\ x.parent_table = y.parent_table
         /\ x.child_table = y.child_table
         /\ x.join_condition = y.join_condition
         /\ x.constraint_name = y.constraint_name
    ELSE ~x.success /\ ~y.success

\* the cache holds a relationship in each direction between the two tables
\* of the call
RelatedBothWays ==
    /\ Upper(tres.table_a) # Upper(tres.table_b)
    /\ (Upper(tres.table_a) \o "->" \o Upper(tres.table_b)) \in DOMAIN cache_relationships
    /\ (Upper(tres.table_b) \o "->" \o Upper(tres.table_a)) \in DOMAIN cache_relationships

\* C27: for every cache content and all tables A and B, get_join_pattern(A, B)
\* and get_join_pattern(B, A) report the same relationship (parent table,
\* child table, column pairs, constraint name, join condition), or both
\* report none.
C27_JoinPatternIgnoresArgumentOrder ==
    IsJoinPatternResult => SameRelationship(tres.out, OtherOrder)

\* C27, amended: the two orders report the same relationship, or both none,
\* unless the cache holds a relationship from A to B and another from B to A;
\* then each order reports the relationship whose parent is its first table.
C27_IgnoresOrderUnlessRelatedBothWays ==
    IsJoinPatternResult =>
        IF RelatedBothWays
        THEN /\ tres.out.success /\ OtherOrder.success
             /\ tres.out.parent_table = Upper(tres.table_a)
             /\ OtherOrder.parent_table = Upper(tres.table_b)
        ELSE SameRelationship(tres.out, OtherOrder)

\* the child table given first: the relationship is found in the second
\* direction tried, and the other order finds the same one
C27_Witness ==
    /\ IsJoinPatternResult
    /\ ~RelatedBothWays
    /\ tres.table_a = "ORDER_ITEMS"
    /\ tres.table_b = "orders"
    /\ tres.out.success
    /\ tres.out.parent_table = "ORDERS"
    /\ tres.out.child_table = "ORDER_ITEMS"
    /\ OtherOrder.success

\* ORDERS and ORDER_ITEMS each reference the other
C27_WitnessBothWays ==
    /\ IsJoinPatternResult
    /\ RelatedBothWays
    /\ tres.out.parent_table # OtherOrder.parent_table


-----------------------------------------------------------------------------
(* C28 *)

\* the ordered (child, parent) pair of a relationship row
OrderedPairOf(row) == <<row.child_table, row.parent_table>>

\* the ids of the rows the cache holds for an ordered pair
RowsOf(rows, pair) == {id \in DOMAIN rows : OrderedPairOf(rows[id]) = pair}

\* one row per pair upserted since the last clear_all, with the columns and
\* the constraint name of the last upsert for the pair, and no other row
OneRowPerPair ==
    /\ \A pair \in DOMAIN lastrel :
        /\ Cardinality(RowsOf(cache_relationships, pair)) = 1
        /\ \A id \in RowsOf(cache_relationships, pair) :
            /\ cache_relationships[id].parent_columns = lastrel[pair].parent_columns
            /\ cache_relationships[id].child_columns = lastrel[pair].child_columns
            /\ cache_relationships[id].constraint_name = lastrel[pair].constraint_name
    /\ \A id \in DOMAIN cache_relationships :
        OrderedPairOf(cache_relationships[id]) \in DOMAIN lastrel

\* the step is an upsert_relationship for the pair
IsUpsertFor(pair) ==
    /\ pair \in DOMAIN lastrel'
    /\ \A other \in DOMAIN lastrel : other # pair =>
        other \in DOMAIN lastrel' /\ lastrel'[other] = lastrel[other]
    /\ cache_relationships' # EmptyDict
    /\ nwrites' = nwrites + 1
    /\ cache_relationships' # cache_relationships \/ lastrel' # lastrel

\* the rows of all other pairs are the same after the step
OtherRowsUnchanged(pair) ==
    \A id \in DOMAIN cache_relationships :
        OrderedPairOf(cache_relationships[id]) # pair =>
            /\ id \in DOMAIN cache_relationships'
            /\ cache_relationships'[id] = cache_relationships[id]

\* the upper-cased ordered pairs of the relationship data
UpsertPairs ==
    {<<Upper(data.child_table), Upper(data.parent_table)>> : data \in RelationshipData}

\* C28: after any sequence of upsert_relationship calls the cache holds
\* exactly one relationship row per distinct ordered (upper-cased child,
\* upper-cased parent) pair, whose columns and constraint name are those of
\* the last upsert for that pair; an upsert for one pair leaves the rows of
\* all other pairs unchanged; clear_all leaves no tables, enums,
\* relationships or sync metadata.
C28_OneRowPerOrderedPair ==
    /\ []OneRowPerPair
    /\ [][\A pair \in UpsertPairs : IsUpsertFor(pair) => OtherRowsUnchanged(pair)]_vars
    /\ [][ClearAll => /\ cache_tables' = EmptyDict
                      /\ cache_enums' = EmptyDict
                      /\ cache_relationships' = EmptyDict
                      /\ cache_sync_metadata' = EmptyDict]_vars

\* ORDERS and ORDER_ITEMS reference each other: two rows, and the row of
\* (ORDER_ITEMS, ORDERS) carries the data of its second upsert
C28_Witness ==
    /\ nwrites >= 3
    /\ DOMAIN lastrel = {<<"ORDER_ITEMS", "ORDERS">>, <<"ORDERS", "ORDER_ITEMS">>}
    /\ Cardinality(DOMAIN cache_relationships) = 2
    /\ lastrel[<<"ORDER_ITEMS", "ORDERS">>].parent_table = "orders"
    /\ cache_relationships["ORDER_ITEMS->ORDERS"].parent_columns = <<"ID", "REGION">>
    /\ cache_relationships["ORDERS->ORDER_ITEMS"].constraint_name = "FK_ORD_LAST"

\* the cache after writes of all four kinds and a clear_all
C28_WitnessCleared ==
    /\ nwrites = MaxWrites
    /\ cache_tables = EmptyDict
    /\ cache_enums = EmptyDict
    /\ cache_relationships = EmptyDict
    /\ cache_sync_metadata = EmptyDict
    /\ graph # NoneVal
    /\ graph # EmptyGraph


-----------------------------------------------------------------------------
(* C29 *)

\* what find_shortest_path may return for the same two tables the other way
\* round
BackwardSearch == find_shortest_path(adj, res.target, res.source, res.max_hops)

\* C29: for all tables A and B and every max_hops k, find_shortest_path(A, B,
\* k) returns a path if and only if find_shortest_path(B, A, k) does, and the
\* two paths have the same total_hops.
C29_PathSearchSymmetric ==
    IsFindResult =>
        \A back \in BackwardSearch :
            /\ (res.out = NoneVal) <=> (back = NoneVal)
            /\ res.out # NoneVal => back.total_hops = res.out.total_hops

\* a path of two steps that starts at a child table, and its reverse
C29_Witness ==
    /\ ReturnedPath
    /\ res.source = "ORDER_ITEMS"
    /\ res.target = "CUSTOMERS"
    /\ res.out.total_hops = 2
    /\ adj["ORDERS"]["ORDER_ITEMS"].parent = "ORDERS"
    /\ adj["ORDERS"]["CUSTOMERS"].parent = "CUSTOMERS"
    /\ \E back \in BackwardSearch : back # NoneVal /\ back.steps[1].from_table = "CUSTOMERS"

\* both directions fail on the same bound
C29_WitnessNone ==
    /\ IsFindResult
    /\ res.source = "ORDER_ITEMS"
    /\ res.target = "CUSTOMERS"
    /\ res.max_hops = 1
    /\ res.out = NoneVal
    /\ \E n \in Nodes(adj) : HasEdge(adj, "ORDER_ITEMS", n) /\ HasEdge(adj, n, "CUSTOMERS")

-----------------------------------------------------------------------------
(* C30 *)

\* the result of get_related_tables lists table t with distance d
ListedAt(t, d) ==
    \E i \in DOMAIN res.out : res.out[i].table_name = t /\ res.out[i].distance = d

\* the distances a result may carry
HopRange == 0..(MaxHopsArg + 1)

====
